---- MODULE Spec2Model ----
(***************************************************************************)
(* A model of the application-facing network layer of                      *)
(* network/framework2/src/protocols/network/mod.rs:                        *)
(*   - OutboundPeerConnections, the generation-counted peer registry       *)
(*     (an RwLock<HashMap> plus an AtomicU32), with its threads modelled   *)
(*     one atomic memory or lock operation per step;                       *)
(*   - NetworkSender, the send path built on a locally cached copy of the  *)
(*     registry, with send_rpc and the request / response correlation of   *)
(*     the per-peer OutboundRpcMatcher;                                    *)
(*   - NetworkEvents, the inbound event stream.                            *)
(***************************************************************************)
EXTENDS Integers, Sequences, FiniteSets, TLC

\* ------------------------------------------------------------------ bounds
\* Cap on the number of insert / remove calls of one run.
MaxMutations == 3

\* Peer identities (PeerNetworkId values) that calls may name.
Peers == {"peerA", "peerB"}
\* Distinct PeerStub handles the connection manager may insert.
Stubs == {"stub1", "stub2"}
\* Threads of the connection manager, calling insert / remove.
Writers == {"cm1", "cm2"}
\* Threads calling get_generational directly.
DirectCallers == {"app1"}
\* Threads sharing one NetworkSender (its methods take &self).
SenderThreads == {"snd1", "snd2"}
\* Every thread that can be inside get_generational.
Callers == DirectCallers \cup SenderThreads
\* Cap on the number of send calls of one run.
MaxCalls == 3
\* Capacity of each bounded per-peer channel (the queue_size it was built with).
ChanCap == 1

\* Cap on the number of send_rpc calls of one run.
MaxRpcs == 2
\* The last instant of the clock, and the timeouts a send_rpc call may be given.
MaxTime == 2
Timeouts == {0, 1}

\* FIFOCache: the keys inserted, the threads inserting, the cache's max_size_in_bytes
\* and the cap on the inserts of a run. A key of 0 stands for None.
FifoKeys == 1 .. 3
FifoThreads == {"f1", "f2"}
MaxSizeInBytes == 2
MaxInserts == 4
\* std::mem::size_of_val(&value): the same for every value of the type V.
SizeOfVal == 1
\* The validators an AckState may be built from.
Authors == {"v1", "v2", "v3"}
\* The cap on the add calls made on an AckState.
MaxAdds == 5
\* Tasks holding a clone of one Closer, and the cap on the calls they make in a run.
CloserTasks == {"k1", "k2", "k3"}
MaxCloserOps == 4
\* Cap on the number of messages one peer's read task sends to a NetworkSource.
MaxMerged == 3
\* Cap on the number of messages that arrive on the inbound channel in one run.
MaxInbound == 4
\* The same cap for the runs in which the requests are answered.
MaxRequests == 2
\* The same cap for the runs made of Error envelopes and decodable direct-send
\* messages only, which have to be longer than poll_next's loop.
MaxErrors == 10

\* A HashMap<PeerNetworkId, PeerStub> is a function from the set of keys it holds.
EmptyMap == [q \in {} |-> "stub1"]

VARIABLES
    peer_connections,   \* OutboundPeerConnections.peer_connections (the map inside the RwLock)
    generation,         \* OutboundPeerConnections.generation
    reg_writer,         \* threads holding the write guard of peer_connections (at most one)
    reg_readers,        \* threads holding a read guard of peer_connections
    w,                  \* per writer thread: its position in insert / remove, and its locals
    g,                  \* per caller thread: its position in get_generational, and its locals
    hist,               \* history: hist[k+1] is the map as of the k-th increment of generation
    reg_calls,          \* history: number of insert / remove calls begun
    peers,              \* NetworkSender.peers (the cached map inside the sender's RwLock)
    peers_generation,   \* NetworkSender.peers_generation
    cache_writer,       \* threads holding the write guard of NetworkSender.peers
    cache_readers,      \* threads holding a read guard of NetworkSender.peers
    chan,               \* per PeerStub: its two bounded channels and whether their receivers are gone
    s,                  \* per sender thread: its position in the send call, and its locals
    s_calls,            \* history: number of send calls begun
    clock,              \* tokio::time::Instant::now()
    rpc_counter,        \* per PeerStub: PeerStub.rpc_counter
    matcher,            \* per PeerStub: PeerStub.open_outbound_rpc, request id -> open request
    slot,               \* per send_rpc call: the oneshot channel made for it
    remote,             \* requests the peers' write tasks have put on the wire
    rpc_calls,          \* history: number of send_rpc calls begun
    ev,                 \* NetworkEvents: done, peers, peers_generation
    inbound,            \* the mpsc channel behind NetworkSource: queued messages, sender side closed
    yielded,            \* history: the events poll_next has yielded
    relays,             \* the rpc_response_sender tasks spawned
    ev_poll,            \* history: what the latest poll_next did
    source,             \* a NetworkSource on its own: its variant, its channels, what it delivered
    closer,             \* a Closer and the tasks holding its clones
    fifo,               \* a FIFOCache and the threads inserting into it
    ack                 \* an AckState and the calls of add made on it

\* The state of send_rpc and of the matcher, and the state of the inbound side: the
\* event stream, the inbound source, and a Closer.
rpcvars == <<clock, rpc_counter, matcher, slot, remote, rpc_calls>>
srcvars == <<source, closer, fifo, ack>>
evvars == <<ev, inbound, yielded, relays, ev_poll, srcvars>>

vars == <<peer_connections, generation, reg_writer, reg_readers, w, g, hist, reg_calls,
          peers, peers_generation, cache_writer, cache_readers, chan, s, s_calls,
          rpcvars, evvars>>

\* What the registry's own operations leave alone.
sendvars == <<peers, peers_generation, cache_writer, cache_readers, chan, s, s_calls,
              rpcvars, evvars>>

\* ---------------------------------------------------------- pure operators
\* HashMap::insert written as "insert if absent": an existing entry is kept.
MapInsertIfAbsent(m, p, h) == [q \in (DOMAIN m) \cup {p} |-> IF q \in DOMAIN m THEN m[q] ELSE h]

\* HashMap::insert: overwrite or add the entry of p.
MapInsert(m, p, h) == [q \in (DOMAIN m) \cup {p} |-> IF q = p THEN h ELSE m[q]]

\* HashMap::remove: drop the entry of p if there is one.
MapRemove(m, p) == [q \in (DOMAIN m) \ {p} |-> m[q]]

\* HashMap::clone.
MapClone(m) == m

\* The counter stored back unchanged, as by fetch_add(0) or a plain load.
FetchAddNothing(old) == old

\* AtomicU32::fetch_add(1): the value stored. The counter is a u32 and wraps at 2^32,
\* which is beyond both the integers of the model checker and every run bounded by
\* MaxMutations; below the wrap the stored value is old + 1.
FetchAddStored(old) == old + 1

\* AtomicU32::fetch_add(1): the value returned to the caller (the previous value).
FetchAddReturned(old) == old

\* A staleness test that never takes the fast path.
AlwaysStale(arg, generation_test) == TRUE

\* get_generational's staleness test (generation == generation_test returns None).
IsStale(arg, generation_test) == arg # generation_test

\* The generation tested before the read guard was taken, returned as the label.
ReturnedTestGeneration(generation_test, generation_actual) == generation_test

\* get_generational answers Some((out, generation_actual)): the generation it read
\* under the read guard, not the one it tested before taking the guard.
ReturnedGeneration(generation_test, generation_actual) == generation_actual

\* The map written with no guard: nothing keeps a writer waiting for the readers.
WriteUnguarded == TRUE

\* RwLock::write succeeds when no guard of either kind is out.
CanWriteLock == reg_writer = {} /\ reg_readers = {}

\* The map read with no guard: nothing keeps a reader out of a writer's critical section.
ReadUnguarded == TRUE

\* RwLock::read succeeds when no write guard is out.
CanReadLock == reg_writer = {}


\* ------------------------------------------------ pure operators: sending
\* The channel a send selects: sender_high_prio when high_prio, sender otherwise.
Selected(high_prio) == IF high_prio THEN "high" ELSE "norm"

\* tokio mpsc Sender::try_send on a bounded channel: refused when the receiver is
\* gone, refused when the channel already holds its capacity, accepted otherwise.
TrySendOutcome(q, closed) ==
    IF closed THEN "closed" ELSE IF Len(q) >= ChanCap THEN "full" ELSE "sent"

\* A send that fails instead of waiting when the channel is full.
SendAwaitNoWait(q, closed) ==
    IF closed \/ Len(q) >= ChanCap THEN "closed" ELSE "sent"

\* tokio mpsc Sender::send(..).await on a bounded channel: an error when the
\* receiver is gone, pending while the channel holds its capacity, accepted otherwise.
SendAwaitOutcome(q, closed) ==
    IF closed THEN "closed" ELSE IF Len(q) >= ChanCap THEN "pending" ELSE "sent"

\* A full channel reported as a closed one.
TrySendResultFullAsGone(outcome) ==
    IF outcome = "sent" THEN "Ok" ELSE "NotConnected"

\* peer_try_send's match on send_result.
TrySendResult(outcome) ==
    CASE outcome = "sent" -> "Ok"
      [] outcome = "full" -> "PeerFullCondition"
      [] outcome = "closed" -> "NotConnected"

\* peer_send's match on sender.send(msg).await.
SendAwaitResult(outcome) ==
    IF outcome = "sent" THEN "Ok" ELSE "NotConnected"

\* The last error instead of the first.
LastError(errs) == IF errs = <<>> THEN "Ok" ELSE errs[Len(errs)]

\* send_to_many's result: Ok when no recipient failed, else the first error.
FirstError(errs) == IF errs = <<>> THEN "Ok" ELSE errs[1]

\* HashMap::get on the cached map: the PeerStub of the peer, if it has one.
Found(m, p) == p \in DOMAIN m

\* RwLock::write / read on NetworkSender.peers.
CanCacheWriteLock == cache_writer = {} /\ cache_readers = {}
CanCacheReadLock == cache_writer = {}

\* A read guard that outlives the statement that took it.
ReadGuardKept(readers, t) == readers \cup {t}

\* peer_send: the guard of self.peers.read() is a temporary of the let statement's
\* match and is dropped when the statement ends.
ReadGuardAfterLet(readers, t) == readers \ {t}

\* An RpcRequest built by call number c, with the request id it allocated.
RpcMsg(rid, c) == [kind |-> "rpc", rid |-> rid, call |-> c]

\* A request id handed out twice.
RpcIdReused(old) == old

\* A counter that moves on by two.
RpcIdSkips(old) == old + 2

\* send_rpc: peer.rpc_counter.fetch_add(1, SeqCst): the value it leaves in the counter
\* (the call's request id is the value it found).
RpcIdNext(old) == old + 1

\* A deadline in the past that is not noticed.
DeadlineNeverPassed(deadline, now) == FALSE

\* send_rpc: deadline.checked_duration_since(Instant::now()) is None when the
\* deadline is earlier than now; otherwise it is the time left.
DeadlinePassed(deadline, now) == deadline < now

\* The wait given the whole timeout of a call that began at time 0, whatever time
\* the call has spent already.
SubTimeoutWhole(deadline, now) == deadline

\* deadline.checked_duration_since(now)
SubTimeout(deadline, now) == deadline - now

\* A full channel reported as a closed one by send_rpc.
RpcTrySendFullAsGone(outcome) ==
    IF outcome = "sent" THEN "sent" ELSE "NotConnected"

\* send_rpc's match on send_result: the error it returns, or "sent".
RpcTrySendResult(outcome) ==
    CASE outcome = "sent" -> "sent"
      [] outcome = "full" -> "TooManyPending"
      [] outcome = "closed" -> "NotConnected"

\* A wait that reports a dropped oneshot sender as a timeout.
WaitCancelAsTimeout(st, ok, now, wake) ==
    CASE st = "value" -> IF ok THEN "Ok" ELSE "DecodeError"
      [] st = "error" -> "RpcErr"
      [] st = "dropped" -> "TimedOut"
      [] st = "open" /\ now >= wake -> "TimedOut"
      [] OTHER -> "pending"

\* send_rpc's match on tokio::time::timeout(sub_timeout, receiver).await: the oneshot
\* is polled first, so a value, an error or a dropped sender wins over the timer.
WaitOutcome(st, ok, now, wake) ==
    CASE st = "value" -> IF ok THEN "Ok" ELSE "DecodeError"
      [] st = "error" -> "RpcErr"
      [] st = "dropped" -> "UnexpectedResponseChannelCancel"
      [] st = "open" /\ now >= wake -> "TimedOut"
      [] OTHER -> "pending"

\* A timeout that takes the call's entry out of the matcher.
TimeoutRemovesEntry(m, rid) == [r \in (DOMAIN m) \ {rid} |-> m[r]]

\* What send_rpc does to the matcher when it returns TimedOut: nothing.
TimeoutLeavesEntry(m, rid) == m

\* A DirectSendMsg built by the call of thread t.
DirectMsg(t) == [kind |-> "direct", by |-> t]

\* A sender thread outside any call. rcpts are the call's recipients and i the one
\* in hand; stub is peer_send's cloned channel handle. out, errs and res are the latest outcome, send_to_many's errs and the
\* call's result. History: h0 (the registry's history length when the call began),
\* enq (recipients whose channel accepted the message), tried (the outcome of each
\* attempt), waited (the call was suspended on a full channel), open (the channel was
\* open at the attempt), len0 (the channel's length at the attempt), retry (the
\* thread's previous call was a send_to to the same peer and channel refused as full).
SenderIdle == [pc |-> "idle", op |-> "none", rcpts |-> <<>>, i |-> 1, hp |-> FALSE,
               enc |-> TRUE, stub |-> "stub1", out |-> "none", errs |-> <<>>,
               res |-> "none", h0 |-> 0, enq |-> <<>>, tried |-> <<>>, waited |-> FALSE,
               open |-> FALSE, len0 |-> 0, retry |-> FALSE,
               call |-> 0, rid |-> 0, timeout |-> 0, deadline |-> 0, wake |-> 0]

\* The oneshot channel of a send_rpc call: st is "none" before it is made, "open",
\* "value" (val names the call whose request the bytes answer, ok whether they
\* decode), "error", "dropped" (its sender was dropped) or "gone" (the call has
\* returned and dropped the receiver). History: res, the result the call returned,
\* n, the number of times an entry holding its sender left the matcher, and by, how
\* the last of them did ("value", "error" or "dropped").
NoSlot == [st |-> "none", val |-> 0, ok |-> TRUE, res |-> "none", n |-> 0, by |-> "none"]

\* OutboundRpcMatcher: request id -> the open request (the call holding the
\* receiver of the entry's oneshot sender, and the deadline).
EmptyMatcher == [r \in {} |-> [call |-> 0, deadline |-> 0]]

\* An insert that has not put the entry into the matcher by the time it returns.
MatcherInsertLate(m, rid, c, deadline) == m

\* OutboundRpcMatcher::insert: the entry replaces any entry of the same request id.
MatcherInsert(m, rid, c, deadline) ==
    [r \in (DOMAIN m) \cup {rid} |->
        IF r = rid THEN [call |-> c, deadline |-> deadline] ELSE m[r]]

\* The entries of a matcher leave it: the oneshot senders they hold are dropped, or
\* used (st, val, ok) when the receiver still waits.
SlotsAfter(rids, m, st, val, ok) ==
    [c \in DOMAIN slot |->
        IF \E r \in rids : m[r].call = c
        THEN IF slot[c].st = "open"
             THEN [slot[c] EXCEPT !.st = st, !.val = val, !.ok = ok, !.n = @ + 1,
                                  !.by = st]
             ELSE [slot[c] EXCEPT !.n = @ + 1, !.by = st]
        ELSE slot[c]]

RpcInit ==
    /\ clock = 0
    /\ rpc_counter = [h \in Stubs |-> 0]
    /\ matcher = [h \in Stubs |-> EmptyMatcher]
    /\ slot = [c \in 1 .. MaxRpcs |-> NoSlot]
    /\ remote = {}
    /\ rpc_calls = 0

EmptyChan == [norm |-> <<>>, high |-> <<>>, closed |-> FALSE]

\* No message: the source gave none.
NoMsg == [n |-> 0, kind |-> "none", ok |-> TRUE, sender |-> "peerA", rid |-> 0]

\* NetworkEvents::new, with an open and empty inbound channel. waker tells that the
\* channel holds the consumer's waker (left by a poll of the channel that found it
\* empty, taken by the next send or close); ready of ev_poll tells that the consumer
\* task is due to poll the stream: at first, after it was woken, and after it was
\* yielded an event (it asks for the next one). History: arrived and
\* taken count the messages put on the channel and taken from it; of ev_poll, res
\* took and hand are the result of the latest poll_next, the number of messages it
\* took and the message it had in hand when it returned; ended is set once a poll
\* has returned end-of-stream, with ylen, at and by the length of yielded, the number
\* of messages taken and the message in hand at that moment (NoMsg when the source
\* was exhausted), and after collects what the polls made since then returned and
\* took.
EvInit ==
    /\ ev = [done |-> FALSE, peers |-> EmptyMap, peers_generation |-> 0]
    /\ inbound = [q |-> <<>>, closed |-> FALSE, waker |-> FALSE, arrived |-> 0, taken |-> 0]
    /\ yielded = <<>>
    /\ relays = {}
    /\ ev_poll = [res |-> "none", took |-> 0, hand |-> NoMsg, ended |-> FALSE, ylen |-> 0,
                  at |-> 0, by |-> NoMsg, after |-> {}, ready |-> TRUE]

\* No NetworkSource built yet. Of a built one, kind is its variant, chans its
\* channels (one per peer that was given a sender: the queue, and whether every
\* sender is gone), live the streams still held by the SelectAll. History: sent,
\* the number of messages sent on each channel (the k-th message of peer p is the
\* item [from |-> p, k |-> k]); out, the items poll_next returned, in order; res, the
\* result of the latest poll_next; open, whether a channel was open at that call;
\* ended, whether a call has returned None.
SourceInit ==
    source = [kind |-> "none", chans |-> [p \in {} |-> [q |-> <<>>, closed |-> FALSE]],
              live |-> {}, sent |-> [p \in {} |-> 0], out |-> <<>>, res |-> "none",
              open |-> FALSE, ended |-> FALSE]

\* A task outside any call on its clone of the Closer. res is the result of
\* is_closed; history: c0, the number of close() calls completed when the call began,
\* and parked, whether a wait() was suspended.
CloserIdle == [pc |-> "idle", op |-> "none", res |-> FALSE, c0 |-> 0, parked |-> FALSE]

\* Closer::new: watch::channel(false) with its sender in a free tokio Mutex, and
\* clones handed to the tasks. History: ops, the calls begun; called and closes,
\* the close() calls begun and completed.
CloserInit ==
    closer = [value |-> FALSE, lock |-> "none", t |-> [k \in CloserTasks |-> CloserIdle],
              ops |-> 0, called |-> 0, closes |-> 0]

\* A thread outside FIFOCache::insert.
FifoIdle == [pc |-> "idle", key |-> 0]

\* No eviction yet.
NoEvict == [key |-> 0, first |-> 0, next |-> 0, older |-> FALSE]

\* FIFOCache::new(max_size_in_bytes). items maps each cached key to the number of the
\* insert call that stored it. History: n, the insert calls begun, and last, the
\* latest eviction: the key removed, first_key before it and after it, and whether
\* an entry stored earlier than the removed one was left in the cache.
FifoInit ==
    fifo = [max_size_in_bytes |-> MaxSizeInBytes, total_size_in_bytes |-> 0,
            last_key |-> 0, first_key |-> 0,
            items |-> [k \in {} |-> 0],
            t |-> [f \in FifoThreads |-> FifoIdle],
            n |-> 0, last |-> NoEvict]

\* No AckState built yet. History: initial, the set it was built from; calls, the
\* add calls made; acked, the peers whose add was accepted; somes, the calls that
\* returned Ok(Some(())); last, the latest call with the set and the acked peers it
\* found.
AckInit ==
    ack = [built |-> FALSE, initial |-> {}, validators |-> {}, calls |-> 0, somes |-> 0,
           acked |-> {},
           last |-> [peer |-> "none", res |-> "none", before |-> {}, acked |-> {}]]

SendInit ==
    /\ peers = EmptyMap
    /\ peers_generation = 0
    /\ cache_writer = {}
    /\ cache_readers = {}
    /\ chan = [h \in Stubs |-> EmptyChan]
    /\ s = [t \in SenderThreads |-> SenderIdle]
    /\ s_calls = 0
    /\ RpcInit
    /\ EvInit
    /\ SourceInit
    /\ CloserInit
    /\ FifoInit
    /\ AckInit

\* ------------------------------------------------------------------- Init
\* A writer thread outside any call. gen0, genl and map0 are history: the generation
\* when the call began, and the generation and the map when it took the write guard.
WriterIdle == [pc |-> "idle", op |-> "insert", peer |-> "peerA", stub |-> "stub1", ret |-> 0,
               gen0 |-> 0, genl |-> 0, map0 |-> EmptyMap]

\* A caller thread outside any call. retgen and out are the result Some((out, retgen));
\* last is the generation its latest Some result carried; clean, gen0 and fresh are
\* history: no write guard was taken since that result, the generation when the
\* current call began, and whether the current call passed last with clean still set.
CallerIdle == [pc |-> "idle", arg |-> 0, test |-> 0, actual |-> 0, out |-> EmptyMap,
               retgen |-> 0, gen0 |-> 0, last |-> 0, clean |-> FALSE, fresh |-> FALSE]

RegInit ==
    /\ peer_connections = EmptyMap
    /\ generation = 0
    /\ reg_writer = {}
    /\ reg_readers = {}
    /\ w = [t \in Writers |-> WriterIdle]
    /\ g = [t \in Callers |-> CallerIdle]
    /\ hist = <<EmptyMap>>
    /\ reg_calls = 0
    /\ SendInit

\* ------------------------------------------------- insert / remove (writers)
\* A connection-manager thread enters insert(peer, stub) or remove(peer).
WCall(t, op, p, h) ==
    /\ w[t].pc = "idle"
    /\ reg_calls < MaxMutations
    /\ reg_calls' = reg_calls + 1
    /\ w' = [w EXCEPT ![t] = [@ EXCEPT !.pc = "call", !.op = op, !.peer = p, !.stub = h,
                                       !.gen0 = generation]]
    /\ UNCHANGED <<peer_connections, generation, reg_writer, reg_readers, g, hist>>
    /\ UNCHANGED sendvars

\* let mut write = self.peer_connections.write().unwrap();
WLock(t) ==
    /\ w[t].pc = "call"
    /\ CanWriteLock
    /\ reg_writer' = {t}
    /\ w' = [w EXCEPT ![t] = [@ EXCEPT !.pc = "locked", !.map0 = peer_connections,
                                       !.genl = generation]]
    /\ g' = [c \in Callers |-> [g[c] EXCEPT !.clean = FALSE,
                                             !.fresh = @ /\ g[c].pc # "gg_call"]]
    /\ UNCHANGED <<peer_connections, generation, reg_readers, hist, reg_calls>>
    /\ UNCHANGED sendvars

\* write.insert(peer_network_id, peer);  /  write.remove(peer_network_id);
WMap(t) ==
    /\ w[t].pc = "locked"
    /\ peer_connections' = IF w[t].op = "insert"
                           THEN MapInsert(peer_connections, w[t].peer, w[t].stub)
                           ELSE MapRemove(peer_connections, w[t].peer)
    /\ w' = [w EXCEPT ![t] = [@ EXCEPT !.pc = "mapped"]]
    /\ UNCHANGED <<generation, reg_writer, reg_readers, g, hist, reg_calls>>
    /\ UNCHANGED sendvars

\* self.generation.fetch_add(1, Ordering::SeqCst), whose value is the call's result.
WFetchAdd(t) ==
    /\ w[t].pc = "mapped"
    /\ generation' = FetchAddStored(generation)
    /\ hist' = Append(hist, peer_connections)
    /\ w' = [w EXCEPT ![t] = [@ EXCEPT !.pc = "bumped", !.ret = FetchAddReturned(generation)]]
    /\ UNCHANGED <<peer_connections, reg_writer, reg_readers, g, reg_calls>>
    /\ UNCHANGED sendvars

\* The write guard is dropped as the function returns.
WReturn(t) ==
    /\ w[t].pc = "bumped"
    /\ reg_writer' = reg_writer \ {t}
    /\ w' = [w EXCEPT ![t] = WriterIdle]
    /\ UNCHANGED <<peer_connections, generation, reg_readers, g, hist, reg_calls>>
    /\ UNCHANGED sendvars

\* ------------------------------------------------------- get_generational
\* A thread enters get_generational(arg).
GGEnter(t, arg) ==
    g' = [g EXCEPT ![t] = [CallerIdle EXCEPT !.pc = "gg_call", !.arg = arg,
                                             !.gen0 = generation,
                                             !.last = g[t].last, !.clean = g[t].clean,
                                             !.fresh = g[t].clean /\ arg = g[t].last]]

\* let generation_test = self.generation.load(SeqCst); if generation == generation_test { return None; }
GGTest(t) ==
    /\ g[t].pc = "gg_call"
    /\ g' = [g EXCEPT ![t] = [@ EXCEPT
                !.test = generation,
                !.pc = IF IsStale(g[t].arg, generation) THEN "gg_tested" ELSE "gg_none"]]
    /\ UNCHANGED <<peer_connections, generation, reg_writer, reg_readers, w, hist, reg_calls>>
    /\ UNCHANGED sendvars

\* let read = self.peer_connections.read().unwrap();
GGReadLock(t) ==
    /\ g[t].pc = "gg_tested"
    /\ CanReadLock
    /\ reg_readers' = reg_readers \cup {t}
    /\ g' = [g EXCEPT ![t] = [@ EXCEPT !.pc = "gg_rlocked"]]
    /\ UNCHANGED <<peer_connections, generation, reg_writer, w, hist, reg_calls>>
    /\ UNCHANGED sendvars

\* let generation_actual = self.generation.load(SeqCst);
GGLoadActual(t) ==
    /\ g[t].pc = "gg_rlocked"
    /\ g' = [g EXCEPT ![t] = [@ EXCEPT !.pc = "gg_actual", !.actual = generation]]
    /\ UNCHANGED <<peer_connections, generation, reg_writer, reg_readers, w, hist, reg_calls>>
    /\ UNCHANGED sendvars

\* let out = read.clone();
GGClone(t) ==
    /\ g[t].pc = "gg_actual"
    /\ g' = [g EXCEPT ![t] = [@ EXCEPT !.pc = "gg_cloned", !.out = MapClone(peer_connections),
                                       !.retgen = ReturnedGeneration(g[t].test, g[t].actual)]]
    /\ UNCHANGED <<peer_connections, generation, reg_writer, reg_readers, w, hist, reg_calls>>
    /\ UNCHANGED sendvars

\* Some((out, generation_actual)): the read guard is dropped as the function returns.
GGReturn(t) ==
    /\ g[t].pc = "gg_cloned"
    /\ reg_readers' = reg_readers \ {t}
    /\ g' = [g EXCEPT ![t] = [@ EXCEPT !.pc = "gg_some", !.last = g[t].retgen, !.clean = TRUE]]
    /\ UNCHANGED <<peer_connections, generation, reg_writer, w, hist, reg_calls>>
    /\ UNCHANGED sendvars

\* A thread calls get_generational directly, with any generation up to the current
\* one; the thread keeps the generation of its latest Some result.
GGCall(t, arg) ==
    /\ g[t].pc = "idle"
    /\ GGEnter(t, arg)
    /\ UNCHANGED <<peer_connections, generation, reg_writer, reg_readers, w, hist, reg_calls>>
    /\ UNCHANGED sendvars

\* The direct caller takes the result: None, or Some((out, generation_actual)).
GGDone(t) ==
    /\ g[t].pc \in {"gg_none", "gg_some"}
    /\ g' = [g EXCEPT ![t] = [CallerIdle EXCEPT !.last = g[t].last, !.clean = g[t].clean]]
    /\ UNCHANGED <<peer_connections, generation, reg_writer, reg_readers, w, hist, reg_calls>>
    /\ UNCHANGED sendvars

\* ------------------------------------------------- the registry on its own
RegNext ==
    \/ \E t \in Writers, p \in Peers :
            \E h \in {"stub1", IF p = "peerA" THEN "stub1" ELSE "stub2"} :
                WCall(t, "insert", p, h)
    \/ \E t \in Writers, p \in Peers : WCall(t, "remove", p, "stub1")
    \/ \E t \in Writers : WLock(t)
    \/ \E t \in Writers : WMap(t)
    \/ \E t \in Writers : WFetchAdd(t)
    \/ \E t \in Writers : WReturn(t)
    \/ \E t \in DirectCallers, arg \in 0..generation : GGCall(t, arg)
    \/ \E t \in Callers : GGTest(t)
    \/ \E t \in Callers : GGReadLock(t)
    \/ \E t \in Callers : GGLoadActual(t)
    \/ \E t \in Callers : GGClone(t)
    \/ \E t \in Callers : GGReturn(t)
    \/ \E t \in DirectCallers : GGDone(t)

SpecRegistry == RegInit /\ [][RegNext]_vars

\* --------------------------------------------------------- NetworkSender
regcore == <<peer_connections, generation, reg_writer, reg_readers, w, hist, reg_calls>>
cachevars == <<peers, peers_generation, cache_writer, cache_readers>>

\* The handle the connection manager builds for a peer's connection.
StubOf(p) == IF p = "peerA" THEN "stub1" ELSE "stub2"

\* Where a call goes once update_peers is done.
AfterUpdate(op) ==
    CASE op = "send_async" -> "ps_lookup"
      [] op = "send_rpc" -> "rpc_lock"
      [] OTHER -> "ts_lock"

\* A thread enters send_to, send_async or send_to_many. send_to_many encodes the
\* message first and returns the encoding error before anything else.
SBegin(t, op, rcpts, hp, enc) ==
    /\ s[t].pc = "idle"
    /\ s_calls < MaxCalls
    /\ s_calls' = s_calls + 1
    /\ s' = [s EXCEPT ![t] = [SenderIdle EXCEPT
                !.pc = IF op = "send_to_many" /\ ~enc THEN "done" ELSE "up_load",
                !.res = IF op = "send_to_many" /\ ~enc THEN "EncodeError" ELSE "none",
                !.op = op, !.rcpts = rcpts, !.hp = hp, !.enc = enc, !.h0 = Len(hist),
                !.retry = /\ s[t].retry
                          /\ op = "send_to"
                          /\ s[t].rcpts = rcpts
                          /\ s[t].hp = hp]]
    /\ UNCHANGED <<regcore, rpcvars, evvars, g, cachevars, chan>>

\* update_peers: let cur_generation = self.peers_generation.load(SeqCst); and the
\* call of self.peer_senders.get_generational(cur_generation).
UPLoad(t) ==
    /\ s[t].pc = "up_load"
    /\ s' = [s EXCEPT ![t] = [@ EXCEPT !.pc = "up_gg"]]
    /\ GGEnter(t, peers_generation)
    /\ UNCHANGED <<regcore, rpcvars, evvars, cachevars, chan, s_calls>>

\* update_peers: if let Some((new_peers, new_generation)) = ..; None ends update_peers.
UPGot(t) ==
    /\ s[t].pc = "up_gg"
    /\ g[t].pc \in {"gg_none", "gg_some"}
    /\ s' = [s EXCEPT ![t] = [@ EXCEPT !.pc = IF g[t].pc = "gg_some" THEN "up_wlock"
                                                ELSE AfterUpdate(s[t].op)]]
    /\ g' = [g EXCEPT ![t] = IF g[t].pc = "gg_some"
                             THEN [CallerIdle EXCEPT !.out = g[t].out, !.retgen = g[t].retgen]
                             ELSE CallerIdle]
    /\ UNCHANGED <<regcore, rpcvars, evvars, cachevars, chan, s_calls>>

\* update_peers: let mut writer = self.peers.write().unwrap();
UPWLock(t) ==
    /\ s[t].pc = "up_wlock"
    /\ CanCacheWriteLock
    /\ cache_writer' = {t}
    /\ s' = [s EXCEPT ![t] = [@ EXCEPT !.pc = "up_store"]]
    /\ UNCHANGED <<regcore, rpcvars, evvars, g, peers, peers_generation, cache_readers, chan, s_calls>>

\* update_peers: self.peers_generation.store(new_generation, SeqCst);
UPStore(t) ==
    /\ s[t].pc = "up_store"
    /\ peers_generation' = g[t].retgen
    /\ s' = [s EXCEPT ![t] = [@ EXCEPT !.pc = "up_fill"]]
    /\ UNCHANGED <<regcore, rpcvars, evvars, g, peers, cache_writer, cache_readers, chan, s_calls>>

\* update_peers: writer.clear(); writer.extend(new_peers); and the guard's drop.
UPFill(t) ==
    /\ s[t].pc = "up_fill"
    /\ peers' = g[t].out
    /\ cache_writer' = cache_writer \ {t}
    /\ g' = [g EXCEPT ![t] = CallerIdle]
    /\ s' = [s EXCEPT ![t] = [@ EXCEPT !.pc = AfterUpdate(s[t].op)]]
    /\ UNCHANGED <<regcore, rpcvars, evvars, peers_generation, cache_readers, chan, s_calls>>

\* peer_try_send: match self.peers.read()
TSLock(t) ==
    /\ s[t].pc = "ts_lock"
    /\ CanCacheReadLock
    /\ cache_readers' = cache_readers \cup {t}
    /\ s' = [s EXCEPT ![t] = [@ EXCEPT !.pc = "ts_send"]]
    /\ UNCHANGED <<regcore, rpcvars, evvars, g, peers, peers_generation, cache_writer, chan, s_calls>>

\* peer_try_send: peers.get(peer_network_id), msg_src()?, try_send on the selected
\* channel and the match on its result, all under the read guard.
TSSend(t) ==
    /\ s[t].pc = "ts_send"
    /\ LET p == s[t].rcpts[s[t].i]
           h == peers[p]
           c == Selected(s[t].hp)
           o == TrySendOutcome(chan[h][c], chan[h].closed)
           out == IF ~Found(peers, p) THEN "NotConnected"
                  ELSE IF ~s[t].enc THEN "EncodeError"
                  ELSE TrySendResult(o)
           tried == Found(peers, p) /\ s[t].enc
       IN /\ chan' = IF tried /\ o = "sent"
                     THEN [chan EXCEPT ![h][c] = Append(@, DirectMsg(t))]
                     ELSE chan
          /\ s' = [s EXCEPT ![t] = [@ EXCEPT
                      !.pc = "ts_sent",
                      !.out = out,
                      !.tried = Append(@, out),
                      !.enq = IF tried /\ o = "sent" THEN Append(@, p) ELSE @,
                      !.open = tried /\ ~chan[h].closed,
                      !.len0 = IF tried THEN Len(chan[h][c]) ELSE 0]]
    /\ UNCHANGED <<regcore, rpcvars, evvars, g, cachevars, s_calls>>

\* peer_try_send returns, dropping the read guard. send_to returns its result;
\* send_to_many pushes an error onto errs, goes on with the next recipient and, after
\* the last, returns Ok or the first error.
TSReturn(t) ==
    /\ s[t].pc = "ts_sent"
    /\ cache_readers' = cache_readers \ {t}
    /\ LET errs == IF s[t].op = "send_to_many" /\ s[t].out # "Ok"
                   THEN Append(s[t].errs, s[t].out) ELSE s[t].errs
       IN s' = [s EXCEPT ![t] =
                  IF s[t].op = "send_to"
                  THEN [@ EXCEPT !.pc = "done", !.res = s[t].out]
                  ELSE IF s[t].i < Len(s[t].rcpts)
                  THEN [@ EXCEPT !.pc = "ts_lock", !.i = @ + 1, !.errs = errs]
                  ELSE [@ EXCEPT !.pc = "done", !.errs = errs, !.res = FirstError(errs)]]
    /\ UNCHANGED <<regcore, rpcvars, evvars, g, peers, peers_generation, cache_writer, chan, s_calls>>

\* peer_send: let sender = match self.peers.read() { .. }; the guard is dropped at the
\* end of the statement; then let msg = msg_src()?;
PSLookup(t) ==
    /\ s[t].pc = "ps_lookup"
    /\ CanCacheReadLock
    /\ LET p == s[t].rcpts[1]
       IN s' = [s EXCEPT ![t] =
                  IF ~Found(peers, p)
                  THEN [@ EXCEPT !.pc = "done", !.res = "NotConnected"]
                  ELSE IF ~s[t].enc
                  THEN [@ EXCEPT !.pc = "done", !.res = "EncodeError"]
                  ELSE [@ EXCEPT !.pc = "ps_send", !.stub = peers[p]]]
    /\ cache_readers' = ReadGuardAfterLet(cache_readers, t)
    /\ UNCHANGED <<regcore, rpcvars, evvars, g, peers, peers_generation, cache_writer, chan, s_calls>>

\* peer_send: match sender.send(msg).await. A first poll that finds the channel full
\* suspends the call; it resumes when the channel has room or its receiver is gone.
PSSend(t) ==
    /\ s[t].pc \in {"ps_send", "ps_wait"}
    /\ LET h == s[t].stub
           c == Selected(s[t].hp)
           o == SendAwaitOutcome(chan[h][c], chan[h].closed)
       IN /\ o = "pending" => s[t].pc = "ps_send"
          /\ chan' = IF o = "sent"
                     THEN [chan EXCEPT ![h][c] = Append(@, DirectMsg(t))]
                     ELSE chan
          /\ s' = [s EXCEPT ![t] =
                      IF o = "pending"
                      THEN [@ EXCEPT !.pc = "ps_wait", !.waited = TRUE,
                                     !.len0 = Len(chan[h][c])]
                      ELSE [@ EXCEPT !.pc = "done",
                                     !.res = SendAwaitResult(o),
                                     !.open = ~chan[h].closed,
                                     !.len0 = Len(chan[h][c]),
                                     !.enq = IF o = "sent" THEN Append(@, s[t].rcpts[1]) ELSE @]]
    /\ UNCHANGED <<regcore, rpcvars, evvars, g, cachevars, s_calls>>

\* The call returns to the application.
SReturn(t) ==
    /\ s[t].pc = "done"
    /\ s' = [s EXCEPT ![t] =
                IF s[t].op = "send_to" /\ s[t].res = "PeerFullCondition"
                THEN [SenderIdle EXCEPT !.rcpts = s[t].rcpts, !.hp = s[t].hp, !.retry = TRUE]
                ELSE SenderIdle]
    /\ UNCHANGED <<regcore, rpcvars, evvars, g, cachevars, chan, s_calls>>

\* The peer's write task takes the next message off one of its channels and puts it
\* on the wire; a request is then with the remote peer.
Drain(h, c) ==
    /\ ~chan[h].closed
    /\ chan[h][c] # <<>>
    /\ chan' = [chan EXCEPT ![h][c] = Tail(@)]
    /\ remote' = LET m == Head(chan[h][c])
                 IN IF m.kind = "rpc"
                    THEN remote \cup {[stub |-> h, rid |-> m.rid, call |-> m.call]}
                    ELSE remote
    /\ UNCHANGED <<regcore, clock, rpc_counter, matcher, slot, rpc_calls, evvars, g,
                   cachevars, s, s_calls>>

\* The peer's connection ends: the receivers of both channels are dropped, and the
\* open requests of its matcher with them.
PeerGone(h) ==
    /\ ~chan[h].closed
    /\ chan' = [chan EXCEPT ![h] = [norm |-> <<>>, high |-> <<>>, closed |-> TRUE]]
    /\ matcher' = [matcher EXCEPT ![h] = EmptyMatcher]
    /\ slot' = SlotsAfter(DOMAIN matcher[h], matcher[h], "dropped", 0, TRUE)
    /\ UNCHANGED <<regcore, clock, rpc_counter, remote, rpc_calls, evvars, g, cachevars,
                   s, s_calls>>

\* ----------------------------------------------------------------- send_rpc
\* A return that keeps the receiver alive.
SlotKept(c, res) == [slot EXCEPT ![c] = [@ EXCEPT !.res = res]]

\* The call's result and the drop of its oneshot receiver, as it returns.
SlotReturned(c, res) == [slot EXCEPT ![c] = [@ EXCEPT !.st = "gone", !.res = res]]

\* send_rpc is called: now, deadline = now + timeout, then update_peers.
RpcBegin(t, p, hp, enc, timeout) ==
    /\ s[t].pc = "idle"
    /\ rpc_calls < MaxRpcs
    /\ clock + timeout <= MaxTime
    /\ rpc_calls' = rpc_calls + 1
    /\ s' = [s EXCEPT ![t] = [SenderIdle EXCEPT
                !.pc = "up_load", !.op = "send_rpc", !.rcpts = <<p>>, !.hp = hp,
                !.enc = enc, !.h0 = Len(hist), !.call = rpc_calls + 1,
                !.timeout = timeout, !.deadline = clock + timeout]]
    /\ UNCHANGED <<regcore, g, cachevars, chan, s_calls, evvars>>
    /\ UNCHANGED <<clock, rpc_counter, matcher, slot, remote>>

\* send_rpc: match self.peers.read()
RpcLock(t) ==
    /\ s[t].pc = "rpc_lock"
    /\ CanCacheReadLock
    /\ cache_readers' = cache_readers \cup {t}
    /\ s' = [s EXCEPT ![t] = [@ EXCEPT !.pc = "rpc_lookup"]]
    /\ UNCHANGED <<regcore, rpcvars, evvars, g, peers, peers_generation, cache_writer,
                   chan, s_calls>>

\* send_rpc: peers.get(&peer_network_id); for a peer found, protocol.to_bytes(..)?
\* and peer.rpc_counter.fetch_add(1). The two early returns drop the read guard.
RpcLookup(t) ==
    /\ s[t].pc = "rpc_lookup"
    /\ LET p == s[t].rcpts[1]
           h == peers[p]
           res == IF ~Found(peers, p) THEN "NotConnected" ELSE "EncodeError"
       IN IF Found(peers, p) /\ s[t].enc
          THEN /\ rpc_counter' = [rpc_counter EXCEPT ![h] = RpcIdNext(@)]
               /\ s' = [s EXCEPT ![t] = [@ EXCEPT !.pc = "rpc_insert", !.stub = h,
                                                  !.rid = rpc_counter[h]]]
               /\ UNCHANGED <<cache_readers, slot>>
          ELSE /\ s' = [s EXCEPT ![t] = [@ EXCEPT !.pc = "done", !.res = res]]
               /\ slot' = [slot EXCEPT ![s[t].call] = [@ EXCEPT !.res = res]]
               /\ cache_readers' = cache_readers \ {t}
               /\ UNCHANGED rpc_counter
    /\ UNCHANGED <<regcore, evvars, g, peers, peers_generation, cache_writer, chan, s_calls>>
    /\ UNCHANGED <<clock, matcher, remote, rpc_calls>>

\* send_rpc: oneshot::channel() and peer.open_outbound_rpc.insert(request_id, sender,
\* .., deadline, ..). An entry it replaces drops the oneshot sender it held.
RpcInsert(t) ==
    /\ s[t].pc = "rpc_insert"
    /\ LET h == s[t].stub
           m == matcher[h]
           old == (DOMAIN m) \cap {s[t].rid}
           dropped == SlotsAfter(old, m, "dropped", 0, TRUE)
       IN /\ matcher' = [matcher EXCEPT
                            ![h] = MatcherInsert(m, s[t].rid, s[t].call, s[t].deadline)]
          /\ slot' = [dropped EXCEPT ![s[t].call] = [@ EXCEPT !.st = "open"]]
    /\ s' = [s EXCEPT ![t] = [@ EXCEPT !.pc = "rpc_try"]]
    /\ UNCHANGED <<regcore, evvars, g, cachevars, chan, s_calls>>
    /\ UNCHANGED <<clock, rpc_counter, remote, rpc_calls>>

\* send_rpc: try_send of the request on the selected channel and the match on its
\* result; Full and Closed return at once. The read guard is dropped at the end of
\* the statement, whatever the result.
RpcTrySend(t) ==
    /\ s[t].pc = "rpc_try"
    /\ LET h == s[t].stub
           c == Selected(s[t].hp)
           o == TrySendOutcome(chan[h][c], chan[h].closed)
           r == RpcTrySendResult(o)
       IN /\ chan' = IF o = "sent"
                     THEN [chan EXCEPT ![h][c] = Append(@, RpcMsg(s[t].rid, s[t].call))]
                     ELSE chan
          /\ s' = [s EXCEPT ![t] = [@ EXCEPT
                      !.pc = IF r = "sent" THEN "rpc_sent" ELSE "done",
                      !.res = IF r = "sent" THEN "none" ELSE r,
                      !.out = r,
                      !.enq = IF o = "sent" THEN Append(@, s[t].rcpts[1]) ELSE @,
                      !.open = ~chan[h].closed,
                      !.len0 = Len(chan[h][c])]]
          /\ slot' = IF r = "sent" THEN slot ELSE SlotReturned(s[t].call, r)
    /\ cache_readers' = cache_readers \ {t}
    /\ UNCHANGED <<regcore, evvars, g, peers, peers_generation, cache_writer, s_calls>>
    /\ UNCHANGED <<clock, rpc_counter, matcher, remote, rpc_calls>>

\* send_rpc: the time left to the deadline; none left returns TimedOut without
\* waiting, else the call waits on timeout(sub_timeout, receiver).
RpcDeadline(t) ==
    /\ s[t].pc = "rpc_sent"
    /\ IF DeadlinePassed(s[t].deadline, clock)
       THEN /\ s' = [s EXCEPT ![t] = [@ EXCEPT !.pc = "done", !.res = "TimedOut",
                                               !.wake = clock]]
            /\ slot' = SlotReturned(s[t].call, "TimedOut")
            /\ matcher' = [matcher EXCEPT
                             ![s[t].stub] = TimeoutLeavesEntry(@, s[t].rid)]
       ELSE /\ s' = [s EXCEPT ![t] = [@ EXCEPT
                        !.pc = "rpc_wait", !.waited = TRUE,
                        !.wake = clock + SubTimeout(s[t].deadline, clock)]]
            /\ UNCHANGED <<slot, matcher>>
    /\ UNCHANGED <<regcore, evvars, g, cachevars, chan, s_calls>>
    /\ UNCHANGED <<clock, rpc_counter, remote, rpc_calls>>

\* send_rpc: timeout(sub_timeout, receiver).await resolves and the call returns,
\* dropping the receiver. History: wake becomes the instant of the return and out
\* what the oneshot held.
RpcWait(t) ==
    /\ s[t].pc = "rpc_wait"
    /\ LET c == s[t].call
           r == WaitOutcome(slot[c].st, slot[c].ok, clock, s[t].wake)
       IN /\ r # "pending"
          /\ s' = [s EXCEPT ![t] = [@ EXCEPT !.pc = "done", !.res = r, !.wake = clock,
                                             !.out = slot[c].st]]
          /\ slot' = SlotReturned(c, r)
          /\ matcher' = IF r = "TimedOut"
                        THEN [matcher EXCEPT ![s[t].stub] = TimeoutLeavesEntry(@, s[t].rid)]
                        ELSE matcher
    /\ UNCHANGED <<regcore, evvars, g, cachevars, chan, s_calls>>
    /\ UNCHANGED <<clock, rpc_counter, remote, rpc_calls>>

\* Time passes, but not past the instant a waiting call's timer is set for.
Tick ==
    /\ clock < MaxTime
    /\ \A t \in SenderThreads : s[t].pc = "rpc_wait" => clock < s[t].wake
    /\ clock' = clock + 1
    /\ UNCHANGED <<regcore, evvars, g, cachevars, chan, s, s_calls>>
    /\ UNCHANGED <<rpc_counter, matcher, slot, remote, rpc_calls>>

\* The peer's response to a request arrives at the peer's read task: the entry of its
\* request id leaves the matcher and the bytes go to the entry's oneshot sender; a
\* response without an entry is dropped, and so are bytes whose receiver is gone.
Respond(req, ok) ==
    /\ req \in remote
    /\ LET h == req.stub
           m == matcher[h]
           hit == (DOMAIN m) \cap {req.rid}
       IN /\ matcher' = [matcher EXCEPT ![h] = [r \in (DOMAIN m) \ hit |-> m[r]]]
          /\ slot' = SlotsAfter(hit, m, "value", req.call, ok)
    /\ UNCHANGED <<regcore, evvars, g, cachevars, chan, s, s_calls>>
    /\ UNCHANGED <<clock, rpc_counter, remote, rpc_calls>>

\* The matcher's owner completes an open request with an error.
RejectRpc(h, rid) ==
    /\ rid \in DOMAIN matcher[h]
    /\ matcher' = [matcher EXCEPT ![h] = [r \in (DOMAIN @) \ {rid} |-> @[r]]]
    /\ slot' = SlotsAfter({rid}, matcher[h], "error", 0, TRUE)
    /\ UNCHANGED <<regcore, evvars, g, cachevars, chan, s, s_calls>>
    /\ UNCHANGED <<clock, rpc_counter, remote, rpc_calls>>

\* The matcher's sweep: the entries whose deadline has passed leave it.
Sweep(h) ==
    /\ LET m == matcher[h]
           old == {r \in DOMAIN m : m[r].deadline < clock}
       IN /\ old # {}
          /\ matcher' = [matcher EXCEPT ![h] = [r \in (DOMAIN m) \ old |-> m[r]]]
          /\ slot' = SlotsAfter(old, m, "dropped", 0, TRUE)
    /\ UNCHANGED <<regcore, evvars, g, cachevars, chan, s, s_calls>>
    /\ UNCHANGED <<clock, rpc_counter, remote, rpc_calls>>

\* send_rpc: one application thread calling one peer, which connects once; the
\* peer's write task, the remote peer's responses, the matcher's owner and time.
RpcNext ==
    \/ generation = 0 /\ WCall("cm1", "insert", "peerA", "stub1")
    \/ WLock("cm1")
    \/ WMap("cm1")
    \/ WFetchAdd("cm1")
    \/ WReturn("cm1")
    \/ \E enc \in BOOLEAN, timeout \in Timeouts :
            RpcBegin("snd1", "peerA", FALSE, enc, timeout)
    \/ UPLoad("snd1")
    \/ GGTest("snd1")
    \/ GGReadLock("snd1")
    \/ GGLoadActual("snd1")
    \/ GGClone("snd1")
    \/ GGReturn("snd1")
    \/ UPGot("snd1")
    \/ UPWLock("snd1")
    \/ UPStore("snd1")
    \/ UPFill("snd1")
    \/ RpcLock("snd1")
    \/ RpcLookup("snd1")
    \/ RpcInsert("snd1")
    \/ RpcTrySend("snd1")
    \/ RpcDeadline("snd1")
    \/ RpcWait("snd1")
    \/ SReturn("snd1")
    \/ Tick
    \/ Drain("stub1", "norm")
    \/ PeerGone("stub1")
    \/ \E req \in remote, ok \in BOOLEAN : Respond(req, ok)
    \/ \E rid \in DOMAIN matcher["stub1"] : RejectRpc("stub1", rid)
    \/ Sweep("stub1")

SpecRpc == RegInit /\ [][RpcNext]_vars

\* send_rpc with time that passes and an executor that polls a woken task.
SpecRpcFair == SpecRpc /\ WF_vars(Tick) /\ WF_vars(RpcWait("snd1"))

\* send_to: one application thread sending to one peer, on either channel, with
\* messages that encode or not; the connection manager connects and disconnects the
\* peer; the peer's write task drains its channels and ends.
SendToNext ==
    \/ WCall("cm1", "insert", "peerA", "stub1")
    \/ WCall("cm1", "remove", "peerA", "stub1")
    \/ WLock("cm1")
    \/ WMap("cm1")
    \/ WFetchAdd("cm1")
    \/ WReturn("cm1")
    \/ \E hp \in BOOLEAN, enc \in BOOLEAN : SBegin("snd1", "send_to", <<"peerA">>, hp, enc)
    \/ UPLoad("snd1")
    \/ GGTest("snd1")
    \/ GGReadLock("snd1")
    \/ GGLoadActual("snd1")
    \/ GGClone("snd1")
    \/ GGReturn("snd1")
    \/ UPGot("snd1")
    \/ UPWLock("snd1")
    \/ UPStore("snd1")
    \/ UPFill("snd1")
    \/ TSLock("snd1")
    \/ TSSend("snd1")
    \/ TSReturn("snd1")
    \/ SReturn("snd1")
    \/ \E c \in {"norm", "high"} : Drain("stub1", c)
    \/ PeerGone("stub1")

SpecSendTo == RegInit /\ [][SendToNext]_vars

\* send_async, in the same setting.
SendAsyncNext ==
    \/ WCall("cm1", "insert", "peerA", "stub1")
    \/ \E p \in DOMAIN peer_connections : WCall("cm1", "remove", p, "stub1")
    \/ WLock("cm1")
    \/ WMap("cm1")
    \/ WFetchAdd("cm1")
    \/ WReturn("cm1")
    \/ \E hp \in BOOLEAN, enc \in BOOLEAN : SBegin("snd1", "send_async", <<"peerA">>, hp, enc)
    \/ UPLoad("snd1")
    \/ GGTest("snd1")
    \/ GGReadLock("snd1")
    \/ GGLoadActual("snd1")
    \/ GGClone("snd1")
    \/ GGReturn("snd1")
    \/ UPGot("snd1")
    \/ UPWLock("snd1")
    \/ UPStore("snd1")
    \/ UPFill("snd1")
    \/ PSLookup("snd1")
    \/ PSSend("snd1")
    \/ SReturn("snd1")
    \/ \E c \in {"norm", "high"} : Drain("stub1", c)
    \/ PeerGone("stub1")

SpecSendAsync == RegInit /\ [][SendAsyncNext]_vars

\* send_async under an executor that polls a woken task: a suspended send(..).await
\* whose channel has room or is closed is resumed.
SpecSendAsyncFair == SpecSendAsync /\ WF_vars(PSSend("snd1"))

\* send_to_many: one application thread sending to two peers; the
\* connection manager connects both and disconnects the ones it has connected.
SendManyNext ==
    \/ \E p \in Peers \ DOMAIN peer_connections : WCall("cm1", "insert", p, StubOf(p))
    \/ \E p \in DOMAIN peer_connections : WCall("cm1", "remove", p, "stub1")
    \/ WLock("cm1")
    \/ WMap("cm1")
    \/ WFetchAdd("cm1")
    \/ WReturn("cm1")
    \/ \E enc \in BOOLEAN : SBegin("snd1", "send_to_many", <<"peerA", "peerB">>, FALSE, enc)
    \/ UPLoad("snd1")
    \/ GGTest("snd1")
    \/ GGReadLock("snd1")
    \/ GGLoadActual("snd1")
    \/ GGClone("snd1")
    \/ GGReturn("snd1")
    \/ UPGot("snd1")
    \/ UPWLock("snd1")
    \/ UPStore("snd1")
    \/ UPFill("snd1")
    \/ TSLock("snd1")
    \/ TSSend("snd1")
    \/ TSReturn("snd1")
    \/ SReturn("snd1")
    \/ \E h \in Stubs : Drain(h, "norm")
    \/ \E h \in Stubs : PeerGone(h)

SpecSendMany == RegInit /\ [][SendManyNext]_vars

\* Two application threads sharing the NetworkSender, each calling send_to for one
\* peer that the connection manager connects and disconnects.
SharedNext ==
    \/ WCall("cm1", "insert", "peerA", "stub1")
    \/ WCall("cm1", "remove", "peerA", "stub1")
    \/ WLock("cm1")
    \/ WMap("cm1")
    \/ WFetchAdd("cm1")
    \/ WReturn("cm1")
    \/ \E t \in SenderThreads : SBegin(t, "send_to", <<"peerA">>, FALSE, TRUE)
    \/ \E t \in SenderThreads : UPLoad(t)
    \/ \E t \in SenderThreads : GGTest(t)
    \/ \E t \in SenderThreads : GGReadLock(t)
    \/ \E t \in SenderThreads : GGLoadActual(t)
    \/ \E t \in SenderThreads : GGClone(t)
    \/ \E t \in SenderThreads : GGReturn(t)
    \/ \E t \in SenderThreads : UPGot(t)
    \/ \E t \in SenderThreads : UPWLock(t)
    \/ \E t \in SenderThreads : UPStore(t)
    \/ \E t \in SenderThreads : UPFill(t)
    \/ \E t \in SenderThreads : TSLock(t)
    \/ \E t \in SenderThreads : TSSend(t)
    \/ \E t \in SenderThreads : TSReturn(t)
    \/ \E t \in SenderThreads : SReturn(t)
    \/ Drain("stub1", "norm")

SpecShared == RegInit /\ [][SharedNext]_vars

\* ------------------------------------------------------------ the claims
\* Positions of get_generational after generation_actual was read, and after the
\* map was cloned.
LabelRead(t) == g[t].pc \in {"gg_actual", "gg_cloned", "gg_some"}
MapCloned(t) == g[t].pc \in {"gg_cloned", "gg_some"}

\* The map insert / remove must leave, given the map found under the write guard.
Expected(m0, op, p, h) ==
    [q \in (IF op = "insert" THEN (DOMAIN m0) \cup {p} ELSE (DOMAIN m0) \ {p})
        |-> IF q = p THEN h ELSE m0[q]]

\* C1: every insert or remove that has done its increment leaves the generation
\* strictly greater than it was when the call began and when it took the write
\* guard, and the counter has taken one new value per increment (it equals the
\* number of completed increments), so it never repeats or decreases.
C1_GenerationStrictlyIncreases ==
    /\ generation = Len(hist) - 1
    /\ \A t \in Writers : w[t].pc = "bumped" =>
            generation > w[t].gen0 /\ generation > w[t].genl

\* C1's case: a remove has just incremented the counter for the second time or later.
C1_Witness ==
    \E t \in Writers : w[t].pc = "bumped" /\ w[t].op = "remove" /\ w[t].genl >= 1

\* C2: the value insert / remove returns is the generation counter right after the
\* call's own increment.
C2_ReturnsPostIncrement ==
    \A t \in Writers : w[t].pc = "bumped" => w[t].ret = generation

\* C3: get_generational(arg) answers None exactly when arg is the generation at the
\* time of its test; otherwise its result carries a copy of the current map and the
\* current generation, and a call that passes the generation of the thread's latest
\* result, with no insert or remove having taken the write guard since, answers None.
C3_NoneExactlyWhenCurrent ==
    \A t \in Callers :
        /\ g[t].pc = "gg_none" => g[t].arg = g[t].test
        /\ g[t].pc \in {"gg_tested", "gg_rlocked", "gg_actual", "gg_cloned", "gg_some"}
                => g[t].arg # g[t].test
        /\ g[t].pc = "gg_cloned" => g[t].out = peer_connections /\ g[t].retgen = generation
        /\ g[t].fresh => g[t].pc \in {"gg_call", "gg_none"}

\* C3's case: a result Some((m, g2)) with g2 > 0 was taken and the next call, passing
\* g2 with the registry untouched, has answered None.
C3_Witness ==
    \E t \in Callers : g[t].pc = "gg_none" /\ g[t].fresh /\ g[t].arg >= 1

\* C4: the map get_generational returns is the registry's map as of some generation
\* no older than the one current when the call began: it omits no insert or remove
\* that had completed before the call.
C4_SnapshotNotOlderThanCall ==
    \A t \in Callers : MapCloned(t) =>
        \E k \in g[t].gen0 .. (Len(hist) - 1) : g[t].out = hist[k + 1]

\* C4's case: a call made with an older generation cloned the map after a mutation
\* that completed while the call was under way.
C4_Witness ==
    \E t \in Callers : /\ g[t].pc = "gg_cloned"
                       /\ g[t].arg < g[t].gen0
                       /\ g[t].gen0 < g[t].actual
                       /\ g[t].out # hist[g[t].gen0 + 1]

\* C5 as stated: the returned generation is read after the map has been cloned, so
\* no call has read its label before it has its clone.
C5_LabelReadAfterClone ==
    \A t \in Callers : LabelRead(t) => MapCloned(t)

\* C5 as amended: the returned generation is read before the clone, both under the
\* read guard: from the read of the label to the clone no writer is inside its
\* critical section and the registry holds the map of that label, so the returned
\* map is exactly the map of the returned generation, neither older nor newer.
C5_LabelMatchesClone ==
    \A t \in Callers :
        /\ MapCloned(t) => LabelRead(t)
        /\ g[t].pc = "gg_actual" =>
                reg_writer = {} /\ peer_connections = hist[g[t].actual + 1]
        /\ MapCloned(t) => g[t].out = hist[g[t].retgen + 1]

\* C5's case: a call tested one generation, a writer completed before the call took
\* the read guard, and the call has returned the later generation with its map.
C5_Witness ==
    \E t \in Callers : /\ g[t].pc = "gg_some"
                       /\ g[t].test < g[t].retgen
                       /\ g[t].out # hist[g[t].test + 1]

\* C6: insert and remove change the named peer's entry only: after the map step of
\* insert(p, h) the registry maps p to h whatever it held before, after that of
\* remove(p) p is absent, every other entry is as it was when the write guard was
\* taken, remove of an absent peer leaves the map as it was, and the call's increment
\* advances the generation by one in every case.
C6_OnlyNamedPeerChanges ==
    \A t \in Writers : w[t].pc \in {"mapped", "bumped"} =>
        /\ peer_connections = Expected(w[t].map0, w[t].op, w[t].peer, w[t].stub)
        /\ w[t].op = "insert" =>
                w[t].peer \in DOMAIN peer_connections /\ peer_connections[w[t].peer] = w[t].stub
        /\ w[t].op = "remove" => w[t].peer \notin DOMAIN peer_connections
        /\ (w[t].op = "remove" /\ w[t].peer \notin DOMAIN w[t].map0) =>
                peer_connections = w[t].map0
        /\ w[t].pc = "bumped" => generation = w[t].genl + 1

\* C6's case: an insert has overwritten the handle another insert had set for the
\* same peer, with another peer's entry in the map.
C6_Witness ==
    \E t \in Writers : /\ w[t].pc = "bumped"
                       /\ w[t].op = "insert"
                       /\ w[t].peer \in DOMAIN w[t].map0
                       /\ w[t].map0[w[t].peer] # w[t].stub
                       /\ DOMAIN w[t].map0 = Peers

\* The recipient of a call was in no map the registry has held since the call began.
AbsentThroughout(t, p) ==
    \A k \in s[t].h0 .. Len(hist) : p \notin DOMAIN hist[k]

\* C7: a send_to to a peer that is absent from the registry from the beginning of the
\* call on enqueues nothing and returns NotConnected.
C7_AbsentPeerNotConnected ==
    \A t \in SenderThreads :
        (s[t].op = "send_to" /\ AbsentThroughout(t, s[t].rcpts[1])) =>
            /\ s[t].enq = <<>>
            /\ ~s[t].waited
            /\ s[t].pc = "done" => s[t].res = "NotConnected"

\* C8: a send_to that finds its peer with a live selected channel already holding
\* ChanCap messages returns PeerFullCondition, having enqueued nothing and waited for
\* nothing; one that finds room there enqueues its message and returns Ok, and so
\* does the send_to repeated after a PeerFullCondition once the write task has taken
\* a message off the channel.
C8_FullRefusedRoomAccepted ==
    \A t \in SenderThreads :
        (s[t].op = "send_to" /\ s[t].pc \in {"ts_sent", "done"}) =>
            /\ ~s[t].waited
            /\ (s[t].open /\ s[t].len0 >= ChanCap) =>
                    s[t].out = "PeerFullCondition" /\ s[t].enq = <<>>
            /\ (s[t].open /\ s[t].len0 < ChanCap) =>
                    s[t].out = "Ok" /\ s[t].enq = s[t].rcpts
            /\ s[t].out = "PeerFullCondition" => s[t].open /\ s[t].len0 = ChanCap
            /\ s[t].pc = "done" => s[t].res = s[t].out

\* C8's case: the send_to repeated after a PeerFullCondition, to the same peer and
\* channel, has returned Ok (m1 Ok, m2 PeerFullCondition, one message drained, m3 Ok).
C8_Witness ==
    \E t \in SenderThreads : /\ s[t].op = "send_to"
                             /\ s[t].pc = "done"
                             /\ s[t].retry
                             /\ s[t].res = "Ok"
                             /\ s[t].len0 = ChanCap - 1

\* What C9 says of each state of a send_async: it is suspended only after a poll that
\* found the live channel full; it never returns PeerFullCondition; Ok means its
\* message was enqueued on a live channel with room; a call that ends on a live
\* channel ends with Ok; and a call that was suspended ends with Ok or, for a channel
\* closed meanwhile, with NotConnected.
C9_Safety ==
    \A t \in SenderThreads :
        s[t].op = "send_async" =>
            /\ s[t].res # "PeerFullCondition"
            /\ s[t].waited => s[t].len0 >= ChanCap \/ s[t].pc = "done"
            /\ s[t].pc = "ps_wait" => s[t].waited /\ s[t].enq = <<>>
            /\ (s[t].pc = "done" /\ s[t].res = "Ok") =>
                    s[t].enq = s[t].rcpts /\ s[t].open /\ s[t].len0 < ChanCap
            /\ (s[t].pc = "done" /\ s[t].open) => s[t].res = "Ok"
            /\ (s[t].pc = "done" /\ s[t].waited) =>
                    /\ s[t].res \in {"Ok", "NotConnected"}
                    /\ s[t].res = "NotConnected" <=> ~s[t].open

\* The selected channel of a suspended send_async has room, or has lost its receiver.
C9_Wakeable(t) ==
    /\ s[t].pc = "ps_wait"
    /\ SendAwaitOutcome(chan[s[t].stub][Selected(s[t].hp)], chan[s[t].stub].closed)
            # "pending"

\* C9: send_async suspends only while the selected channel is full: a suspended call
\* whose channel gets room or is closed returns, with Ok after enqueuing its message
\* or with NotConnected for the closed channel, and never with PeerFullCondition.
C9_SuspendsOnlyWhileFull ==
    /\ []C9_Safety
    /\ \A t \in {"snd1"} : C9_Wakeable(t) ~> s[t].pc = "done"

\* C9's case: a send_async that was suspended on a full channel has returned Ok.
C9_Witness ==
    \E t \in SenderThreads : /\ s[t].op = "send_async"
                             /\ s[t].pc = "done"
                             /\ s[t].waited
                             /\ s[t].res = "Ok"

\* C9's other case: a send_async suspended on a full channel has returned
\* NotConnected after the channel's receiver was dropped.
C9_WitnessClosed ==
    \E t \in SenderThreads : /\ s[t].op = "send_async"
                             /\ s[t].pc = "done"
                             /\ s[t].waited
                             /\ s[t].res = "NotConnected"

\* The recipients, in order, whose attempt in a list of outcomes was Ok.
OkRecipients(rcpts, outcomes) ==
    LET IsOk(i) == outcomes[i] = "Ok"
        idx == SelectSeq([i \in 1 .. Len(outcomes) |-> i], IsOk)
    IN [k \in 1 .. Len(idx) |-> rcpts[idx[k]]]

\* C10: a send_to_many of a message that encodes attempts every recipient, in order,
\* whatever the earlier attempts gave; the recipients it has enqueued to are exactly
\* those whose attempt was Ok; and it returns Ok iff every attempt was Ok, and
\* otherwise the outcome of the first attempt that was not.
C10_BestEffortFirstError ==
    \A t \in SenderThreads :
        (s[t].op = "send_to_many" /\ s[t].enc) =>
            /\ s[t].enq = OkRecipients(s[t].rcpts, s[t].tried)
            /\ s[t].pc = "ts_lock" => Len(s[t].tried) = s[t].i - 1
            /\ s[t].pc = "done" =>
                    /\ Len(s[t].tried) = Len(s[t].rcpts)
                    /\ s[t].res = "Ok" <=> \A i \in DOMAIN s[t].tried : s[t].tried[i] = "Ok"
                    /\ s[t].res # "Ok" =>
                            \E i \in DOMAIN s[t].tried :
                                /\ s[t].res = s[t].tried[i]
                                /\ s[t].tried[i] # "Ok"
                                /\ \A j \in 1 .. (i - 1) : s[t].tried[j] = "Ok"

\* C10's case: the first recipient was refused for a full channel, the second was
\* absent, and the call has returned the first one's error.
C10_Witness ==
    \E t \in SenderThreads : /\ s[t].op = "send_to_many"
                             /\ s[t].pc = "done"
                             /\ s[t].tried = <<"PeerFullCondition", "NotConnected">>
                             /\ s[t].res = "PeerFullCondition"

\* C10's other case: the first recipient failed and the second was still enqueued to.
C10_WitnessPartial ==
    \E t \in SenderThreads : /\ s[t].op = "send_to_many"
                             /\ s[t].pc = "done"
                             /\ s[t].tried = <<"NotConnected", "Ok">>
                             /\ s[t].enq = <<"peerB">>
                             /\ s[t].res = "NotConnected"

\* ------------------------------------------------------- claims on send_rpc
\* A send_rpc call of thread t that has made its oneshot and its matcher entry.
RpcEntered(t) ==
    s[t].op = "send_rpc" /\ s[t].pc \in {"rpc_try", "rpc_sent", "rpc_wait", "done"}
                         /\ s[t].call >= 1 /\ slot[s[t].call].st # "none"

\* C11: a send_rpc that returns because its try_send was refused (channel full or
\* closed) leaves no entry for its request id in the peer's matcher.
C11_NoDanglingEntry ==
    \A t \in SenderThreads :
        (RpcEntered(t) /\ s[t].pc = "done" /\ s[t].enq = <<>>) =>
            s[t].rid \notin DOMAIN matcher[s[t].stub]

\* What C12 says of each state: a call waits only up to its deadline, on a timer set
\* for the deadline; a call that waited with nothing having touched its oneshot
\* returns TimedOut at the deadline; and a call that finds the deadline passed after
\* the enqueue returns TimedOut without having waited.
C12_Safety ==
    \A t \in SenderThreads :
        s[t].op = "send_rpc" =>
            /\ s[t].pc = "rpc_wait" => clock <= s[t].deadline /\ s[t].wake = s[t].deadline
            /\ (s[t].pc = "done" /\ s[t].waited /\ s[t].out = "open") =>
                    s[t].res = "TimedOut" /\ s[t].wake = s[t].deadline
            /\ (s[t].pc = "done" /\ s[t].waited) => s[t].wake <= s[t].deadline
            /\ (s[t].pc = "done" /\ ~s[t].waited /\ s[t].enq # <<>>) =>
                    s[t].res = "TimedOut" /\ s[t].wake > s[t].deadline

\* C12: a send_rpc whose request was enqueued returns: TimedOut at the deadline when
\* nothing fills or drops its oneshot, never later than the deadline when it waits,
\* and TimedOut without waiting when the deadline has passed by the end of the enqueue.
C12_TimedOutAtDeadline ==
    /\ []C12_Safety
    /\ \A t \in {"snd1"} : (s[t].pc = "rpc_wait") ~> (s[t].pc = "done")

\* C12's case: a call with a timeout of 1 waited, its oneshot untouched, and has
\* returned TimedOut.
C12_Witness ==
    \E t \in SenderThreads : /\ s[t].op = "send_rpc" /\ s[t].pc = "done"
                             /\ s[t].waited /\ s[t].out = "open"
                             /\ s[t].timeout = 1 /\ s[t].res = "TimedOut"

\* C12's other case: the deadline had passed when the enqueue finished.
C12_WitnessNoWait ==
    \E t \in SenderThreads : /\ s[t].op = "send_rpc" /\ s[t].pc = "done"
                             /\ ~s[t].waited /\ s[t].enq # <<>>
                             /\ s[t].res = "TimedOut"

\* C13 as stated: once send_rpc has returned TimedOut the matcher has no entry for
\* the call's request id.
C13_NoEntryAfterTimedOut ==
    \A t \in SenderThreads :
        (s[t].op = "send_rpc" /\ s[t].pc = "done" /\ s[t].res = "TimedOut") =>
            s[t].rid \notin DOMAIN matcher[s[t].stub]

\* C13 as amended: send_rpc returning TimedOut does not remove the entry: it stays in
\* the matcher, still naming the call, until the matcher's side takes it out (a
\* response, an error, the sweep or the end of the connection), and is not there
\* afterwards.
C13_EntryStaysUntilMatcherRemoves ==
    \A t \in SenderThreads :
        (s[t].op = "send_rpc" /\ s[t].pc = "done" /\ s[t].res = "TimedOut") =>
            LET m == matcher[s[t].stub]
                c == s[t].call
            IN /\ slot[c].n = 0 => s[t].rid \in DOMAIN m /\ m[s[t].rid].call = c
               /\ slot[c].n > 0 => s[t].rid \notin DOMAIN m

\* C13's case: a call has returned TimedOut and its entry is still in the matcher.
C13_Witness ==
    \E t \in SenderThreads : /\ s[t].op = "send_rpc" /\ s[t].pc = "done"
                             /\ s[t].res = "TimedOut" /\ s[t].waited
                             /\ s[t].rid \in DOMAIN matcher[s[t].stub]

\* C14: a call that returned TimedOut has dropped its receiver, so that nothing that
\* arrives later is delivered to it; and the value any call holds or returned with
\* answers the request of that very call.
C14_LateResponseDropped ==
    \A c \in DOMAIN slot :
        /\ slot[c].res = "TimedOut" => slot[c].st = "gone"
        /\ slot[c].st = "gone" => slot[c].res # "none"
        /\ slot[c].val # 0 => slot[c].val = c
        /\ slot[c].res \in {"Ok", "DecodeError"} => slot[c].val = c

\* C14's case: the response to a call that had returned TimedOut arrived while a
\* later call was waiting for its own.
C14_Witness ==
    \E c \in DOMAIN slot, t \in SenderThreads :
        /\ slot[c].res = "TimedOut" /\ slot[c].by = "value"
        /\ s[t].pc = "rpc_wait" /\ s[t].call # c

\* C15: an entry leaves the matcher at most once per call and a call's oneshot is
\* used at most once; a call has at most one entry, under the request id it
\* allocated; the calls of one peer have different request ids; and the value a call
\* gets answers its own request.
C15_CompletedAtMostOnce ==
    /\ \A c \in DOMAIN slot :
          /\ slot[c].n <= 1
          /\ slot[c].st \in {"value", "error", "dropped"} => slot[c].n = 1
          /\ slot[c].st = "value" => slot[c].val = c
    /\ \A h \in Stubs : \A r \in DOMAIN matcher[h] :
          /\ slot[matcher[h][r].call].n = 0
          /\ r < rpc_counter[h]
          /\ \A r2 \in DOMAIN matcher[h] : matcher[h][r2].call = matcher[h][r].call => r2 = r
    /\ \A t \in SenderThreads : RpcEntered(t) =>
          \A r \in DOMAIN matcher[s[t].stub] :
              matcher[s[t].stub][r].call = s[t].call <=> r = s[t].rid

\* C15's case: a second response to a request whose call already got the first has
\* found no entry, with a later call's entry in the matcher.
C15_Witness ==
    \E c \in DOMAIN slot, h \in Stubs :
        /\ slot[c].res = "Ok" /\ slot[c].n = 1
        /\ \E r \in DOMAIN matcher[h] : matcher[h][r].call # c

\* C16: a call that waited returns UnexpectedResponseChannelCancel exactly when it
\* found its oneshot's sender dropped without a value, and the error exactly when it
\* found the oneshot filled with an error; neither is reported as TimedOut.
C16_CancelAndErrorReported ==
    \A t \in SenderThreads :
        (s[t].op = "send_rpc" /\ s[t].pc = "done" /\ s[t].waited) =>
            /\ s[t].out = "dropped" <=> s[t].res = "UnexpectedResponseChannelCancel"
            /\ s[t].out = "error" <=> s[t].res = "RpcErr"
            /\ s[t].res = "TimedOut" <=> s[t].out = "open"

\* C16's case: the sender of a waiting call's oneshot was dropped before the deadline
\* and the call has returned UnexpectedResponseChannelCancel before the deadline.
C16_Witness ==
    \E t \in SenderThreads : /\ s[t].op = "send_rpc" /\ s[t].pc = "done"
                             /\ s[t].res = "UnexpectedResponseChannelCancel"
                             /\ s[t].wake < s[t].deadline

\* C16's other case: the oneshot was filled with an error.
C16_WitnessError ==
    \E t \in SenderThreads : /\ s[t].op = "send_rpc" /\ s[t].pc = "done"
                             /\ s[t].res = "RpcErr"

\* C17 as stated: no send_rpc returns TooManyPending.
C17_NeverTooManyPending ==
    \A t \in SenderThreads : s[t].op = "send_rpc" => s[t].res # "TooManyPending"

\* C17 as amended: send_rpc returns TooManyPending exactly when the try_send of its
\* request found the selected channel open and full, and then nothing was enqueued.
C17_TooManyPendingIffFull ==
    \A t \in SenderThreads :
        (s[t].op = "send_rpc" /\ s[t].pc = "done") =>
            (s[t].res = "TooManyPending" <=>
                (RpcEntered(t) /\ s[t].open /\ s[t].len0 >= ChanCap /\ s[t].enq = <<>>))

\* C17's case: a send_rpc has found the channel full and returned TooManyPending.
C17_Witness ==
    \E t \in SenderThreads : /\ s[t].op = "send_rpc" /\ s[t].pc = "done"
                             /\ s[t].res = "TooManyPending"

\* ------------------------------------------------------------ NetworkEvents
\* The iterations of poll_next's loop, for _ in 1..10.
PollLoop == 9

\* The envelopes the peers' read tasks forward: Error, RpcRequest and DirectSendMsg,
\* with a payload that decodes under its protocol id (ok) or not; rid is the request
\* id of an RpcRequest, chosen by the peer that sent it. RpcResponse is
\* consumed by the read task and never forwarded (poll_next holds it unreachable).
Envelopes ==
    {[kind |-> "error", ok |-> TRUE, sender |-> "peerA", rid |-> 0],
     [kind |-> "rpc", ok |-> TRUE, sender |-> "peerA", rid |-> 7],
     [kind |-> "rpc", ok |-> FALSE, sender |-> "peerA", rid |-> 8],
     [kind |-> "rpc", ok |-> TRUE, sender |-> "peerB", rid |-> 7],
     [kind |-> "direct", ok |-> TRUE, sender |-> "peerA", rid |-> 0],
     [kind |-> "direct", ok |-> FALSE, sender |-> "peerB", rid |-> 0]}

\* A done test that never holds.
StreamNeverDone(e) == FALSE

\* if self.done { return Poll::Ready(None); }
StreamDone(e) == e.done

\* A decode failure that leaves the done flag as it was.
DecodeFailureSkipped(done) == done

\* mself.done = true; on a payload that fails to decode.
DecodeFailureEnds(done) == TRUE

\* The match on the envelope with an Error envelope handled as a failure.
MsgStepErrorFails(msg) ==
    CASE msg.kind = "error" -> "fail"
      [] ~msg.ok -> "fail"
      [] msg.kind = "rpc" -> "rpc"
      [] OTHER -> "message"

\* match msg.message: an Error envelope is discarded and the loop goes on; a payload
\* that from_bytes rejects fails the stream; a decoded request or message goes on to
\* be yielded.
MsgStep(msg) ==
    CASE msg.kind = "error" -> "discard"
      [] ~msg.ok -> "fail"
      [] msg.kind = "rpc" -> "rpc"
      [] OTHER -> "message"

\* The number of envelopes at the head of the queue that the loop discards before
\* it has one in hand that ends the call.
LeadingErrors(q) ==
    LET other == {i \in 1 .. Len(q) : MsgStep(q[i]) # "discard"}
    IN IF other = {} THEN Len(q)
       ELSE (CHOOSE i \in other : \A j \in other : i <= j) - 1

\* NetworkEvents::update_peers: get_generational(self.peers_generation) and, on
\* Some, the replacement of the cached map and generation. poll_next is a
\* synchronous function and waits for the registry's read guard inside the call; what
\* it gets is the registry's map and generation at the moment it holds the guard.
EvUpdatePeers(e) ==
    IF IsStale(e.peers_generation, generation)
    THEN [e EXCEPT !.peers_generation = ReturnedGeneration(generation, generation),
                   !.peers = MapClone(peer_connections)]
    ELSE e

\* The event poll_next yields for a decoded message.
EventOf(msg) ==
    [kind |-> IF msg.kind = "rpc" THEN "RpcRequest" ELSE "Message",
     sender |-> msg.sender, of |-> msg]

\* A relay task that echoes the arrival number of the request as its request id.
RelayTaskArrivalId(msg, stub) ==
    [of |-> msg, stub |-> stub, ch |-> "norm", rid |-> msg.n, slot |-> "open",
     bytes |-> "none", pc |-> "await", out |-> "none", enq |-> <<>>]

\* The rpc_response_sender task spawned for a request: it holds the receiver of the
\* request's oneshot channel (slot: "open", then "value" with bytes, "error" or
\* "dropped"), the request id rpc_id and a clone of peer_stub.sender, the normal
\* channel of the sender's handle. pc is its position, out how it ended; history:
\* enq, the envelopes it enqueued and where.
RelayTask(msg, stub) ==
    [of |-> msg, stub |-> stub, ch |-> "norm", rid |-> msg.rid, slot |-> "open",
     bytes |-> "none", pc |-> "await", out |-> "none", enq |-> <<>>]

\* A receiver that reports the end of the channel while messages are still queued.
ReceiverEndsOnClose(q, closed) ==
    IF closed THEN "None" ELSE IF q # <<>> THEN "Some" ELSE "Pending"

\* ReceiverStream::poll_next on a tokio mpsc receiver: the message at the head if
\* there is one, the end of the stream once every sender is gone and the queue is
\* empty, and Pending (leaving the caller's waker in the channel) otherwise.
ReceiverPoll(q, closed) ==
    IF q # <<>> THEN "Some" ELSE IF closed THEN "None" ELSE "Pending"

\* What one call of poll_next does, from the stream's state e and the queue q of its
\* source: res is its result, took the number of messages it took from the source,
\* e the stream's state after it, events what it yielded (at most one event),
\* spawned the rpc_response_sender tasks it spawned (at most one), hand the message
\* in hand when it returned, reg whether its last poll of the source was Pending,
\* the one return that leaves the caller's waker behind.
PollOutcome(e, q, closed) ==
    LET k == LeadingErrors(q)
        msg == q[k + 1]
        e1 == EvUpdatePeers(e)
        src == ReceiverPoll(SubSeq(q, k + 1, Len(q)), closed)
        quiet == [res |-> "Pending", took |-> 0, e |-> e, events |-> <<>>,
                  spawned |-> {}, hand |-> NoMsg, reg |-> FALSE]
    IN IF StreamDone(e)
       THEN [quiet EXCEPT !.res = "None"]
       ELSE IF k >= PollLoop
       THEN [quiet EXCEPT !.took = PollLoop, !.hand = q[PollLoop]]
       ELSE IF src = "None"
       THEN [quiet EXCEPT !.res = "None", !.took = k, !.e = [e EXCEPT !.done = TRUE]]
       ELSE IF src = "Pending"
       THEN [quiet EXCEPT !.took = k, !.reg = TRUE]
       ELSE CASE MsgStep(msg) = "fail" ->
                    [quiet EXCEPT !.res = "None", !.took = k + 1, !.hand = msg,
                                  !.e = [e EXCEPT !.done = DecodeFailureEnds(e.done)]]
              [] MsgStep(msg) = "message" ->
                    [quiet EXCEPT !.res = "Some", !.took = k + 1, !.hand = msg,
                                  !.events = <<EventOf(msg)>>]
              [] MsgStep(msg) = "rpc" /\ msg.sender \notin DOMAIN e1.peers ->
                    [quiet EXCEPT !.took = k + 1, !.hand = msg, !.e = e1]
              [] MsgStep(msg) = "rpc" /\ msg.sender \in DOMAIN e1.peers ->
                    [quiet EXCEPT !.res = "Some", !.took = k + 1, !.hand = msg, !.e = e1,
                                  !.events = <<EventOf(msg)>>,
                                  !.spawned = {RelayTask(msg, e1.peers[msg.sender])}]
              [] OTHER ->
                    [quiet EXCEPT !.res = "None", !.took = k + 1, !.hand = msg,
                                  !.e = [e EXCEPT !.done = TRUE]]

\* Whether the call gets as far as update_peers, which takes the registry's read guard.
PollRefreshes(e, q) ==
    /\ ~StreamDone(e)
    /\ LeadingErrors(q) < PollLoop
    /\ LeadingErrors(q) < Len(q)
    /\ MsgStep(q[LeadingErrors(q) + 1]) = "rpc"

\* The application polls the stream: NetworkEvents::poll_next.
PollNext ==
    /\ PollRefreshes(ev, inbound.q) => CanReadLock
    /\ LET r == PollOutcome(ev, inbound.q, inbound.closed)
           first == r.res = "None" /\ ~ev_poll.ended
       IN /\ ev' = r.e
          /\ inbound' = [inbound EXCEPT !.q = SubSeq(@, r.took + 1, Len(@)),
                                        !.taken = @ + r.took,
                                        !.waker = @ \/ r.reg]
          /\ yielded' = yielded \o r.events
          /\ relays' = relays \cup r.spawned
          /\ ev_poll' = [ev_poll EXCEPT
                !.res = r.res, !.took = r.took, !.hand = r.hand,
                !.ready = r.res = "Some",
                !.ended = @ \/ r.res = "None",
                !.ylen = IF first THEN Len(yielded) ELSE @,
                !.at = IF first THEN inbound.taken + r.took ELSE @,
                !.by = IF first THEN r.hand ELSE @,
                !.after = IF ev_poll.ended
                          THEN @ \cup {[res |-> r.res, took |-> r.took]} ELSE @]
    /\ UNCHANGED <<regcore, g, cachevars, chan, s, s_calls, rpcvars, srcvars>>

\* A message is sent on the inbound channel, at most cap of them in a run; the send
\* takes the waker the channel holds and wakes the consumer.
Put(m, cap) ==
    /\ ~inbound.closed
    /\ inbound.arrived < cap
    /\ inbound' = [inbound EXCEPT
            !.q = Append(@, [n |-> inbound.arrived + 1, kind |-> m.kind, ok |-> m.ok,
                             sender |-> m.sender, rid |-> m.rid]),
            !.arrived = @ + 1,
            !.waker = FALSE]
    /\ ev_poll' = [ev_poll EXCEPT !.ready = @ \/ inbound.waker]
    /\ UNCHANGED <<regcore, g, cachevars, chan, s, s_calls, rpcvars, srcvars, ev, yielded, relays>>

\* A peer's read task puts a message on the inbound channel.
Arrive(m) == Put(m, MaxInbound)

\* The last sender of the inbound channel is dropped, which wakes the consumer too.
CloseInbound ==
    /\ ~inbound.closed
    /\ inbound' = [inbound EXCEPT !.closed = TRUE, !.waker = FALSE]
    /\ ev_poll' = [ev_poll EXCEPT !.ready = @ \/ inbound.waker]
    /\ UNCHANGED <<regcore, g, cachevars, chan, s, s_calls, rpcvars, srcvars, ev, yielded, relays>>

\* The event stream over a single-source inbound channel, polled by its one
\* consumer, while the connection manager connects and disconnects peerA.
EventsNext ==
    \/ generation = 0 /\ WCall("cm1", "insert", "peerA", "stub1")
    \/ generation = 1 /\ WCall("cm1", "remove", "peerA", "stub1")
    \/ WLock("cm1")
    \/ WMap("cm1")
    \/ WFetchAdd("cm1")
    \/ WReturn("cm1")
    \/ \E m \in Envelopes : Arrive(m)
    \/ CloseInbound
    \/ PollNext

SpecEvents == RegInit /\ [][EventsNext]_vars

\* ------------------------------------------------- claims on NetworkEvents
\* C18: the Done state of the event stream is absorbing. Once a poll_next has
\* returned end-of-stream the done flag is set and stays set (is_terminated() is
\* true), every later poll_next has returned end-of-stream having taken nothing from
\* the inbound source, no message has been taken from the source since, and no
\* event has been yielded since.
C18_DoneAbsorbing ==
    ev_poll.ended =>
        /\ ev.done
        /\ ev_poll.after \subseteq {[res |-> "None", took |-> 0]}
        /\ inbound.taken = ev_poll.at
        /\ Len(yielded) = ev_poll.ylen

\* C18 (witness): after the stream ended, with messages still queued in the source,
\* a later poll_next was made.
C18_Witness ==
    /\ ev_poll.ended
    /\ ev_poll.after # {}
    /\ inbound.q # <<>>
    /\ yielded # <<>>

\* C19: a direct-send or RPC-request envelope whose payload fails to decode moves
\* the stream to Done. The poll that had it in hand returned end-of-stream and set
\* done; the message is not among the yielded events; no relay task was spawned for
\* it; and no message that arrived after it is ever yielded.
C19_DecodeFailureEndsStream ==
    /\ (ev_poll.hand.kind \in {"rpc", "direct"} /\ ~ev_poll.hand.ok) =>
            /\ ev_poll.res = "None"
            /\ ev.done
            /\ ev_poll.by = ev_poll.hand
    /\ \A n \in 1 .. inbound.arrived :
            (ev_poll.ended /\ ev_poll.by.n = n /\ ~ev_poll.by.ok) =>
                /\ ev.done
                /\ \A i \in 1 .. Len(yielded) : yielded[i].of.n < n
                /\ \A r \in relays : r.of.n < n
                /\ \A i \in 1 .. Len(inbound.q) : inbound.q[i].n > n

\* C19 (witness): a payload failed to decode with a message queued behind it, and
\* the stream was polled again.
C19_Witness ==
    /\ ev_poll.ended
    /\ ev_poll.by.kind \in {"rpc", "direct"}
    /\ ~ev_poll.by.ok
    /\ inbound.q # <<>>
    /\ ev_poll.after # {}

\* C20: Error envelopes are never surfaced. No yielded event was made from an Error
\* envelope, and an Error envelope does not end the stream: the message in hand
\* when the stream ended is never an Error envelope, and a poll that took only
\* Error envelopes from an open source leaves done unset.
C20_ErrorsNeverSurfaced ==
    /\ \A i \in 1 .. Len(yielded) : yielded[i].of.kind # "error"
    /\ \A r \in relays : r.of.kind # "error"
    /\ ev_poll.ended => ev_poll.by.kind # "error"

\* C20 (witness): a poll took an Error envelope and the stream went on: the stream
\* is not done and an event was yielded from a message that arrived after an Error
\* envelope was taken.
C20_Witness ==
    /\ ~ev.done
    /\ ~ev_poll.ended
    /\ ev_poll.took >= 2
    /\ ev_poll.res = "Some"
    /\ yielded # <<>>

\* ------------------------------------------- NetworkEvents and its consumer
\* The consumer task polls the stream when it is due to: NetworkEvents::poll_next
\* called by the executor for a task that was woken.
PollReady ==
    /\ ev_poll.ready
    /\ PollNext

\* Error envelopes and decodable direct-send messages arriving in any order and
\* number up to MaxErrors, read by a consumer that polls when it is due to.
ErrorsNext ==
    \/ Put([kind |-> "error", ok |-> TRUE, sender |-> "peerA", rid |-> 0], MaxErrors)
    \/ Put([kind |-> "direct", ok |-> TRUE, sender |-> "peerA", rid |-> 0], MaxErrors)
    \/ CloseInbound
    \/ PollReady

SpecErrors == RegInit /\ [][ErrorsNext]_vars

\* The executor runs a task that is due to poll.
SpecErrorsFair == SpecErrors /\ WF_vars(PollReady)

\* The decodable messages waiting in the inbound source.
QueuedDecodable ==
    {i \in 1 .. Len(inbound.q) : inbound.q[i].kind \in {"rpc", "direct"} /\ inbound.q[i].ok}

\* C21: the bounded discard of Error envelopes preserves forward progress. Whenever
\* decodable messages wait in the inbound source, behind any number of Error
\* envelopes, a consumer that polls whenever it is woken is eventually yielded them:
\* the source comes to hold no decodable message, each one taken having been
\* yielded as an event.
C21_DecodableEventuallyYielded ==
    (QueuedDecodable # {}) ~> (QueuedDecodable = {} /\ yielded # <<>>)

\* RPC requests from peerB, which is never connected, and decodable direct-send
\* messages from peerA, read by a consumer that polls when it is due to, while the
\* connection manager connects peerA.
AbsentNext ==
    \/ generation = 0 /\ WCall("cm1", "insert", "peerA", "stub1")
    \/ WLock("cm1")
    \/ WMap("cm1")
    \/ WFetchAdd("cm1")
    \/ WReturn("cm1")
    \/ Put([kind |-> "rpc", ok |-> TRUE, sender |-> "peerB", rid |-> 7], MaxInbound)
    \/ Put([kind |-> "direct", ok |-> TRUE, sender |-> "peerA", rid |-> 0], MaxInbound)
    \/ CloseInbound
    \/ PollReady

SpecAbsent == RegInit /\ [][AbsentNext]_vars

\* The executor runs a task that is due to poll.
SpecAbsentFair == SpecAbsent /\ WF_vars(PollReady)

\* The direct-send messages waiting in the inbound source.
QueuedDirect == {i \in 1 .. Len(inbound.q) : inbound.q[i].kind = "direct"}

\* A poll_next that had in hand a decodable RPC request whose sender is absent from
\* the refreshed peer map returned not-ready, left done unset, spawned no relay
\* task for the request and yielded no event for it.
C22_AbsentIsNotTerminal ==
    (/\ ev_poll.hand.kind = "rpc"
     /\ ev_poll.hand.ok
     /\ ev_poll.hand.sender \notin DOMAIN ev.peers) =>
        /\ ev_poll.res = "Pending"
        /\ ~ev.done
        /\ \A r \in relays : r.of # ev_poll.hand
        /\ \A i \in 1 .. Len(yielded) : yielded[i].of # ev_poll.hand

\* C22: a decodable RPC request from a sender absent from the refreshed peer map is
\* treated as transient. The poll returns not-ready, done stays unset, no relay task
\* is spawned, and the messages that wait in the source behind it are still
\* delivered to the consumer.
C22_AbsentSenderTransient ==
    /\ []C22_AbsentIsNotTerminal
    /\ (QueuedDirect # {}) ~> (QueuedDirect = {})

\* ------------------------------------------------------ rpc_response_sender
\* The bytes an application may answer a request with.
ResponseBytes == {"b1", "b2"}

\* The tasks spawned, with task r replaced by r2.
RelaysWith(r, r2) == (relays \ {r}) \cup {r2}

\* The application answers a yielded RpcRequest event through its responder: it
\* sends Ok(bytes) or Err(..) on the oneshot channel, or drops the sender.
AppRespond(r, st, bytes) ==
    /\ r.slot = "open"
    /\ relays' = RelaysWith(r, [r EXCEPT !.slot = st, !.bytes = bytes])
    /\ UNCHANGED <<regcore, g, cachevars, chan, s, s_calls, rpcvars, srcvars, ev, inbound, yielded,
                   ev_poll>>

\* A match on the oneshot's result that sends a response for an error as well.
RelayErrorAsValue(st) ==
    CASE st = "value" -> "send"
      [] st = "error" -> "send"
      [] OTHER -> "canceled"

\* A task that goes back to the send once the channel took the response.
RelaySendsAgain == "send"

\* rpc_response_sender after peer_sender.send(msg).await returned Ok: the counters
\* are updated and the task ends.
RelayAfterSent == "done"

\* match receiver.await: Ok(Ok(bytes)) goes on to send the response, Ok(Err(_))
\* returns (counted as "err"), Err(_), the sender dropped, returns (counted as
\* canceled).
RelayOnSlot(st) ==
    CASE st = "value" -> "send"
      [] st = "error" -> "err"
      [] OTHER -> "canceled"

\* NetworkMessage::RpcResponse(RpcResponse { request_id: rpc_id, priority: 0,
\* raw_response: bytes }).
ResponseMsg(r) == [kind |-> "rpc_response", rid |-> r.rid, priority |-> 0, bytes |-> r.bytes]

\* The task is resumed with the result of receiver.await.
RelayAwait(r) ==
    /\ r.pc = "await"
    /\ r.slot # "open"
    /\ relays' = RelaysWith(r, IF RelayOnSlot(r.slot) = "send"
                               THEN [r EXCEPT !.pc = "send"]
                               ELSE [r EXCEPT !.pc = "done", !.out = RelayOnSlot(r.slot)])
    /\ UNCHANGED <<regcore, g, cachevars, chan, s, s_calls, rpcvars, srcvars, ev, inbound, yielded,
                   ev_poll>>

\* match peer_sender.send(msg).await: the task waits while the channel is full, and
\* ends when the channel took the response (counted as sent) or is closed (counted
\* as "peererr").
RelaySend(r) ==
    /\ r.pc \in {"send", "send_wait"}
    /\ LET o == SendAwaitOutcome(chan[r.stub][r.ch], chan[r.stub].closed)
       IN /\ o = "pending" => r.pc = "send"
          /\ chan' = IF o = "sent"
                     THEN [chan EXCEPT ![r.stub][r.ch] = Append(@, ResponseMsg(r))]
                     ELSE chan
          /\ relays' = RelaysWith(r,
                CASE o = "pending" -> [r EXCEPT !.pc = "send_wait"]
                  [] o = "sent" ->
                        [r EXCEPT !.pc = RelayAfterSent, !.out = "sent",
                                  !.enq = Append(@, [stub |-> r.stub, ch |-> r.ch,
                                                     msg |-> ResponseMsg(r)])]
                  [] OTHER -> [r EXCEPT !.pc = "done", !.out = "peererr"])
    /\ UNCHANGED <<regcore, g, cachevars, s, s_calls, rpcvars, srcvars, ev, inbound, yielded, ev_poll>>

\* Some task is resumed.
RelayStep == \E r \in relays : RelayAwait(r) \/ RelaySend(r)

\* Requests of peerA read from the stream and answered by the application, the
\* relay tasks, and peerA's connection: made by the connection manager, its
\* normal channel drained by its write task, and ended.
RelayNext ==
    \/ generation = 0 /\ WCall("cm1", "insert", "peerA", "stub1")
    \/ WLock("cm1")
    \/ WMap("cm1")
    \/ WFetchAdd("cm1")
    \/ WReturn("cm1")
    \/ \E rid \in {7, 8} :
            Put([kind |-> "rpc", ok |-> TRUE, sender |-> "peerA", rid |-> rid], MaxRequests)
    \/ PollNext
    \/ \E r \in relays, b \in ResponseBytes : AppRespond(r, "value", b)
    \/ \E r \in relays : AppRespond(r, "error", "none")
    \/ \E r \in relays : AppRespond(r, "dropped", "none")
    \/ RelayStep
    \/ Drain("stub1", "norm")
    \/ PeerGone("stub1")

SpecRelay == RegInit /\ [][RelayNext]_vars

\* The executor resumes a task whose await is ready.
SpecRelayFair == SpecRelay /\ WF_vars(RelayStep)

\* The response envelope a task owes the peer of its request.
Owed(r) == [stub |-> StubOf(r.of.sender), ch |-> "norm",
            msg |-> [kind |-> "rpc_response", rid |-> r.of.rid, priority |-> 0,
                     bytes |-> r.bytes]]

\* The response envelopes waiting on a channel are the ones tasks have enqueued there.
ResponsesFromTasks ==
    \A h \in Stubs, c \in {"norm", "high"} :
        \A i \in 1 .. Len(chan[h][c]) :
            chan[h][c][i].kind = "rpc_response" =>
                \E r \in relays : r.enq = <<[stub |-> h, ch |-> c, msg |-> chan[h][c][i]]>>

\* C23 as stated: for every yielded RpcRequest event whose completion sender was
\* filled with Ok(bytes), the relay task, once it has ended, has enqueued on the
\* requesting peer's normal channel a response envelope with the request id of the
\* request and those bytes.
C23_ResponseAlwaysEnqueued ==
    \A r \in relays : (r.slot = "value" /\ r.pc = "done") => r.enq = <<Owed(r)>>

\* C23 (amended): a relay task whose completion sender was filled with Ok(bytes)
\* sends on the requesting peer's normal channel, never the high-priority one, a
\* response envelope with the request id of the request and those bytes. It ends
\* having enqueued exactly that envelope, or, the channel being closed, having
\* enqueued nothing; until then it has enqueued nothing.
C23_ResponseEnqueuedUnlessClosed ==
    /\ ResponsesFromTasks
    /\ \A r \in relays :
        /\ r.enq \in {<<>>, <<Owed(r)>>}
        /\ r.enq # <<>> => (r.slot = "value" /\ r.pc = "done" /\ r.out = "sent")
        /\ (r.slot = "value" /\ r.pc = "done") =>
                \/ r.out = "sent" /\ r.enq = <<Owed(r)>>
                \/ r.out = "peererr" /\ r.enq = <<>> /\ chan[r.stub].closed

\* C23 (witness): a response answering request id 8, the id of the first message
\* to arrive, was enqueued, and another task ended on the closed channel.
C23_Witness ==
    /\ \E r \in relays : r.out = "sent" /\ r.of.rid = 8 /\ r.of.n = 1
    /\ \E r \in relays : r.out = "peererr" /\ r.slot = "value"

\* A relay task whose completion sender was filled with an error, or dropped, never
\* reaches the send, has enqueued nothing, and ends counted as "err" or canceled.
C24_Safety ==
    \A r \in relays :
        r.slot \in {"error", "dropped"} =>
            /\ r.pc \in {"await", "done"}
            /\ r.enq = <<>>
            /\ r.pc = "done" => r.out = (IF r.slot = "error" THEN "err" ELSE "canceled")

\* C24: a relay task whose completion sender was filled with an error, or dropped,
\* sends no response envelope to the peer and ends normally: C24_Safety always
\* holds, and every such task does end.
C24_NoResponseOnErrorOrDrop ==
    /\ []C24_Safety
    /\ (\E r \in relays : r.slot \in {"error", "dropped"} /\ r.pc # "done")
            ~> (\A r \in relays : r.slot \in {"error", "dropped"} => r.pc = "done")

\* C24 (witness): one task ended on an error and another on a dropped sender.
C24_Witness ==
    /\ \E r \in relays : r.slot = "error" /\ r.pc = "done"
    /\ \E r \in relays : r.slot = "dropped" /\ r.pc = "done"

\* C25: every relay task terminates once its completion slot resolves or its
\* completion sender is dropped, whatever the state of the peer's channel.
C25_RelayTerminates ==
    (\E r \in relays : r.slot # "open" /\ r.pc # "done")
        ~> (\A r \in relays : r.slot # "open" => r.pc = "done")

\* ------------------------------------------------------------ NetworkSource
\* A receiver that hands out the newest message first.
ReceiverTakeNewest(q) == [item |-> q[Len(q)], rest |-> SubSeq(q, 1, Len(q) - 1)]

\* A tokio mpsc receiver yields its messages in the order they were sent.
ReceiverTake(q) == [item |-> Head(q), rest |-> Tail(q)]

\* NetworkSource::new_single_source(receiver) and new_multi_source(receivers), over
\* the receivers of fresh channels, one per peer of ps; new_multi_source's
\* select_all holds every one of the streams.
NewSource(kind, ps) ==
    /\ source.kind = "none"
    /\ source' = [source EXCEPT
            !.kind = kind,
            !.chans = [p \in ps |-> [q |-> <<>>, closed |-> FALSE]],
            !.live = ps,
            !.sent = [p \in ps |-> 0]]
    /\ UNCHANGED <<regcore, g, cachevars, chan, s, s_calls, rpcvars, ev, inbound, yielded,
                   relays, ev_poll, closer, fifo, ack>>

\* The read task of peer p sends a message on its channel.
SourceSend(p) ==
    /\ p \in DOMAIN source.chans
    /\ ~source.chans[p].closed
    /\ source.sent[p] < MaxMerged
    /\ source' = [source EXCEPT
            !.chans[p].q = Append(@, [from |-> p, k |-> source.sent[p] + 1]),
            !.sent[p] = @ + 1]
    /\ UNCHANGED <<regcore, g, cachevars, chan, s, s_calls, rpcvars, ev, inbound, yielded,
                   relays, ev_poll, closer, fifo, ack>>

\* The read task of peer p ends and drops its sender.
SourceClose(p) ==
    /\ p \in DOMAIN source.chans
    /\ ~source.chans[p].closed
    /\ source' = [source EXCEPT !.chans[p].closed = TRUE]
    /\ UNCHANGED <<regcore, g, cachevars, chan, s, s_calls, rpcvars, ev, inbound, yielded,
                   relays, ev_poll, closer, fifo, ack>>

\* The streams of live that have ended: closed and drained.
Finished(live) ==
    {p \in live : ReceiverPoll(source.chans[p].q, source.chans[p].closed) = "None"}

\* NetworkSource::poll_next. The SingleSource variant polls its ReceiverStream. The
\* ManySource variant polls its SelectAll, which polls the streams it holds in no
\* fixed order: it returns the item of one that has a message, having dropped the
\* streams it found ended on the way (gone, any of the ended ones); with no message
\* in any of them it drops every ended stream, and returns None when it holds no
\* stream any more, Pending otherwise.
SourcePoll(p, gone) ==
    /\ source.kind \in {"single", "many"}
    /\ LET c == source.chans[p]
           polled == ReceiverPoll(c.q, c.closed)
           some == {x \in source.live :
                        ReceiverPoll(source.chans[x].q, source.chans[x].closed) = "Some"}
           open == \E x \in DOMAIN source.chans : ~source.chans[x].closed
       IN IF source.kind = "single"
          THEN /\ p \in source.live
               /\ gone = {}
               /\ source' = [source EXCEPT
                      !.chans[p].q = IF polled = "Some" THEN ReceiverTake(c.q).rest ELSE @,
                      !.out = IF polled = "Some" THEN Append(@, ReceiverTake(c.q).item) ELSE @,
                      !.res = polled,
                      !.open = open,
                      !.ended = @ \/ polled = "None"]
          ELSE IF some # {}
          THEN /\ p \in some
               /\ gone \subseteq Finished(source.live)
               /\ source' = [source EXCEPT
                      !.chans[p].q = ReceiverTake(c.q).rest,
                      !.out = Append(@, ReceiverTake(c.q).item),
                      !.live = @ \ gone,
                      !.res = "Some",
                      !.open = open]
          ELSE /\ p = "peerA"
               /\ gone = Finished(source.live)
               /\ source' = [source EXCEPT
                      !.live = @ \ gone,
                      !.res = IF source.live \ gone = {} THEN "None" ELSE "Pending",
                      !.open = open,
                      !.ended = @ \/ source.live \ gone = {}]
    /\ UNCHANGED <<regcore, g, cachevars, chan, s, s_calls, rpcvars, ev, inbound, yielded,
                   relays, ev_poll, closer, fifo, ack>>

\* A NetworkSource of either variant, the read tasks of the peers feeding it and
\* ending, and its consumer polling it.
SourceNext ==
    \/ NewSource("single", {"peerA"})
    \/ \E ps \in SUBSET Peers : NewSource("many", ps)
    \/ \E p \in Peers : SourceSend(p)
    \/ \E p \in Peers : SourceClose(p)
    \/ \E p \in Peers, gone \in SUBSET Peers : SourcePoll(p, gone)

SpecSource == RegInit /\ [][SourceNext]_vars

\* C26: the multi-source stream ends only after all of its channels have closed and
\* been drained, and the single-source stream ends when its one channel has. A
\* stream that has returned None has every channel closed and empty; a poll_next
\* made while a channel is open does not return None, and one made with every
\* channel closed does not return Pending; the stream of a peer whose channel is
\* open is never dropped from the merge, so its messages keep being delivered
\* whichever other channels have closed.
C26_EndsWhenAllClosed ==
    /\ source.ended =>
            \A p \in DOMAIN source.chans :
                source.chans[p].closed /\ source.chans[p].q = <<>>
    /\ source.res = "None" => ~source.open
    /\ source.res = "Pending" => source.open
    /\ \A p \in DOMAIN source.chans :
            (~source.chans[p].closed \/ source.chans[p].q # <<>>) => p \in source.live

\* C26 (witness): in a multi-source stream the channel of one peer has closed and
\* its stream was dropped, and poll_next has just returned a message of the other
\* peer, whose channel is open.
C26_Witness ==
    /\ source.kind = "many"
    /\ \E p \in DOMAIN source.chans, x \in DOMAIN source.chans :
        /\ source.chans[p].closed
        /\ p \notin source.live
        /\ ~source.chans[x].closed
        /\ source.res = "Some"
        /\ source.out[Len(source.out)].from = x
    /\ ~source.ended

\* C26's case for the single-source stream: it has ended, with messages delivered.
C26_WitnessSingle ==
    /\ source.kind = "single"
    /\ source.ended
    /\ source.out # <<>>

\* The items of peer p among the items delivered.
DeliveredOf(p) == SelectSeq(source.out, LAMBDA x : x.from = p)

\* C27: the merged stream delivers every message sent on any of its channels exactly
\* once and in its peer's own order. For each peer, the items delivered followed by
\* the messages still queued are its messages 1, 2, .. in the order sent; and a
\* stream that has ended has delivered every message sent.
C27_ExactlyOnceInOrder ==
    /\ \A p \in DOMAIN source.chans :
            DeliveredOf(p) \o source.chans[p].q
                = [k \in 1 .. source.sent[p] |-> [from |-> p, k |-> k]]
    /\ source.ended =>
            \A p \in DOMAIN source.chans : Len(DeliveredOf(p)) = source.sent[p]

\* C27 (witness): two peers have sent MaxMerged messages each and the merged stream
\* has delivered all of them, the first two from different peers, and has ended.
C27_Witness ==
    /\ source.kind = "many"
    /\ DOMAIN source.chans = Peers
    /\ \A p \in Peers : source.sent[p] = MaxMerged
    /\ Len(source.out) = 2 * MaxMerged
    /\ source.out[1].from = "peerB"
    /\ source.out[2].from = "peerA"
    /\ source.ended

\* ------------------------------------------------------------------- Closer
\* What the model outside the Closer is made of.
notcloser == <<regcore, g, cachevars, chan, s, s_calls, rpcvars, ev, inbound, yielded,
               relays, ev_poll, source, fifo, ack>>

\* A modification that flips the value.
SendToggle(x) == ~x

\* send_modify(|x| *x = true)
SendModify(x) == TRUE

\* A predicate satisfied by any value.
WaitAlways(x) == TRUE

\* wait_for(|x| *x)
WaitSatisfied(x) == x

\* A task calls close(), wait() or is_closed() on its clone.
CloserCall(k, op) ==
    /\ closer.t[k].pc = "idle"
    /\ closer.ops < MaxCloserOps
    /\ closer' = [closer EXCEPT
            !.t[k] = [CloserIdle EXCEPT !.pc = "call", !.op = op, !.c0 = closer.closes],
            !.ops = @ + 1,
            !.called = IF op = "close" THEN @ + 1 ELSE @]
    /\ UNCHANGED notcloser

\* close: self.wat.lock().await, which waits for the mutex to be free.
CloseLock(k) ==
    /\ closer.t[k].pc = "call"
    /\ closer.t[k].op = "close"
    /\ closer.lock = "none"
    /\ closer' = [closer EXCEPT !.lock = k, !.t[k].pc = "locked"]
    /\ UNCHANGED notcloser

\* close: send_modify(|x| *x = true) on the watch sender, which wakes every waiting
\* receiver; the mutex guard is dropped as the statement ends and close() returns.
CloseSend(k) ==
    /\ closer.t[k].pc = "locked"
    /\ closer' = [closer EXCEPT
            !.value = SendModify(@),
            !.lock = "none",
            !.closes = @ + 1,
            !.t = [j \in CloserTasks |->
                    IF j = k THEN [closer.t[j] EXCEPT !.pc = "done"]
                    ELSE IF closer.t[j].pc = "parked"
                    THEN [closer.t[j] EXCEPT !.pc = "call"]
                    ELSE closer.t[j]]]
    /\ UNCHANGED notcloser

\* wait: self.done.wait_for(|x| *x).await tests the current value, returns when the
\* predicate holds, and is suspended until the next modification otherwise.
WaitCheck(k) ==
    /\ closer.t[k].pc = "call"
    /\ closer.t[k].op = "wait"
    /\ closer' = [closer EXCEPT
            !.t[k] = IF WaitSatisfied(closer.value)
                     THEN [@ EXCEPT !.pc = "done"]
                     ELSE [@ EXCEPT !.pc = "parked", !.parked = TRUE]]
    /\ UNCHANGED notcloser

\* is_closed: *self.done.borrow()
IsClosed(k) ==
    /\ closer.t[k].pc = "call"
    /\ closer.t[k].op = "is_closed"
    /\ closer' = [closer EXCEPT !.t[k] = [@ EXCEPT !.pc = "done", !.res = closer.value]]
    /\ UNCHANGED notcloser

\* The call returns to the task.
CloserReturn(k) ==
    /\ closer.t[k].pc = "done"
    /\ closer' = [closer EXCEPT !.t[k] = CloserIdle]
    /\ UNCHANGED notcloser

\* A task's call moves on.
CloserStep(k) == CloseLock(k) \/ CloseSend(k) \/ WaitCheck(k) \/ IsClosed(k)

\* Tasks calling close(), wait() and is_closed() on clones of one Closer.
CloserNext ==
    \/ \E k \in CloserTasks, op \in {"close", "wait", "is_closed"} : CloserCall(k, op)
    \/ \E k \in CloserTasks : CloseLock(k)
    \/ \E k \in CloserTasks : CloseSend(k)
    \/ \E k \in CloserTasks : WaitCheck(k)
    \/ \E k \in CloserTasks : IsClosed(k)
    \/ \E k \in CloserTasks : CloserReturn(k)

SpecCloser == RegInit /\ [][CloserNext]_vars

\* The executor resumes every task whose await is ready.
SpecCloserFair == SpecCloser /\ \A k \in CloserTasks : WF_vars(CloserStep(k))

\* C28: Closer is a one-way latch shared by all clones. It is not closed until a
\* close() completes, it is closed from then on whatever is called afterwards
\* (further close() calls included), and is_closed() on any clone returns exactly
\* that: true when a close() had completed before the call.
C28_OneWayLatch ==
    /\ closer.closes = 0 => ~closer.value
    /\ closer.closes > 0 => closer.value
    /\ \A k \in CloserTasks :
        (closer.t[k].op = "is_closed" /\ closer.t[k].pc = "done") =>
            /\ closer.t[k].c0 > 0 => closer.t[k].res
            /\ closer.closes = 0 => ~closer.t[k].res

\* C28 (witness): two close() calls have completed and a later is_closed() on
\* another clone has returned.
C28_Witness ==
    /\ closer.closes >= 2
    /\ \E k \in CloserTasks :
        /\ closer.t[k].op = "is_closed"
        /\ closer.t[k].pc = "done"
        /\ closer.t[k].c0 >= 2

\* No wait() returns while the latch is open, and a wait() begun after a close()
\* completed returns without being suspended.
C29_Safety ==
    \A k \in CloserTasks :
        closer.t[k].op = "wait" =>
            /\ closer.t[k].pc = "done" => closer.closes > 0
            /\ closer.t[k].c0 > 0 => ~closer.t[k].parked

\* The tasks inside wait().
Waiting == {k \in CloserTasks : closer.t[k].op = "wait" /\ closer.t[k].pc \in {"call", "parked"}}

\* C29: every wait() on any clone, for any number of concurrent waiters, returns
\* after close() has been called on any clone; a wait() begun after close() returns
\* immediately; and no wait() returns before close() while the latch is open.
C29_WaitReturnsAfterClose ==
    /\ []C29_Safety
    /\ (closer.called > 0 /\ Waiting # {}) ~> (Waiting = {})

\* C29 (witness): two tasks were suspended in wait() at once and the wait() of one
\* of them has returned after a close().
C29_Witness ==
    /\ \E k \in CloserTasks, j \in CloserTasks :
        /\ k # j
        /\ closer.t[k].op = "wait" /\ closer.t[k].parked /\ closer.t[k].pc = "done"
        /\ closer.t[j].op = "wait" /\ closer.t[j].parked
    /\ closer.closes > 0

\* ------------------------------------------------- locks and channel operations
\* One application thread calling send_to, send_async, send_to_many and send_rpc in
\* turn for a peer that connects once; the peer's write task, its responses and time.
LocksNext ==
    \/ generation = 0 /\ WCall("cm1", "insert", "peerA", "stub1")
    \/ WLock("cm1")
    \/ WMap("cm1")
    \/ WFetchAdd("cm1")
    \/ WReturn("cm1")
    \/ \E op \in {"send_to", "send_async"} : SBegin("snd1", op, <<"peerA">>, FALSE, TRUE)
    \/ SBegin("snd1", "send_to_many", <<"peerA", "peerB">>, FALSE, TRUE)
    \/ \E timeout \in Timeouts : RpcBegin("snd1", "peerA", FALSE, TRUE, timeout)
    \/ UPLoad("snd1")
    \/ GGTest("snd1")
    \/ GGReadLock("snd1")
    \/ GGLoadActual("snd1")
    \/ GGClone("snd1")
    \/ GGReturn("snd1")
    \/ UPGot("snd1")
    \/ UPWLock("snd1")
    \/ UPStore("snd1")
    \/ UPFill("snd1")
    \/ TSLock("snd1")
    \/ TSSend("snd1")
    \/ TSReturn("snd1")
    \/ PSLookup("snd1")
    \/ PSSend("snd1")
    \/ RpcLock("snd1")
    \/ RpcLookup("snd1")
    \/ RpcInsert("snd1")
    \/ RpcTrySend("snd1")
    \/ RpcDeadline("snd1")
    \/ RpcWait("snd1")
    \/ SReturn("snd1")
    \/ Tick
    \/ Drain("stub1", "norm")
    \/ \E req \in remote : Respond(req, TRUE)

SpecLocks == RegInit /\ [][LocksNext]_vars

\* The thread holds a guard of the registry's lock or of the sender's cached-map lock.
HoldsRegistryGuard(t) == t \in reg_writer \cup reg_readers
HoldsCacheGuard(t) == t \in cache_writer \cup cache_readers
HoldsGuard(t) == HoldsRegistryGuard(t) \/ HoldsCacheGuard(t)

\* The call is at one of its awaits: sender.send(msg).await, first polled or
\* suspended, or timeout(sub_timeout, receiver).await.
AtAwait(t) == s[t].pc \in {"ps_send", "ps_wait", "rpc_wait"}

\* The step is one in which the call enqueues a message on a peer's channel.
Enqueues(t) == Len(s'[t].enq) > Len(s[t].enq)

\* The operations that enqueue with the non-blocking try_send.
TrySenders == {"send_to", "send_to_many", "send_rpc"}

C30_WitnessTrySend ==
    /\ s["snd1"].op = "send_to"
    /\ s["snd1"].pc = "ts_sent"
    /\ s["snd1"].enq # <<>>
    /\ "snd1" \in cache_readers

\* ----------------------------------------------------- the caller never deadlocks
\* The steps of a call of thread t, from its first statement to its return value.
SenderStep(t) ==
    \/ UPLoad(t) \/ GGTest(t) \/ GGReadLock(t) \/ GGLoadActual(t) \/ GGClone(t)
    \/ GGReturn(t) \/ UPGot(t) \/ UPWLock(t) \/ UPStore(t) \/ UPFill(t)
    \/ TSLock(t) \/ TSSend(t) \/ TSReturn(t)
    \/ RpcLock(t) \/ RpcLookup(t) \/ RpcInsert(t) \/ RpcTrySend(t)
    \/ RpcDeadline(t) \/ RpcWait(t)

\* The steps of an insert or remove of the connection manager.
WriterStep(t) == WLock(t) \/ WMap(t) \/ WFetchAdd(t) \/ WReturn(t)

\* The threads inside a call that has not produced its result.
InCall == {t \in SenderThreads : s[t].pc \notin {"idle", "done"}}

\* Time passes while the send_rpc call of snd2 is under way, until its deadline has
\* passed.
TimePasses ==
    /\ "snd2" \in InCall
    /\ clock <= s["snd2"].deadline
    /\ Tick

\* Two threads sharing one NetworkSender: snd1 makes one call of send_to or
\* send_to_many and snd2 one call of send_rpc, while the connection manager connects
\* the peer and disconnects it, the peer's write task ends and time passes. Nothing
\* is taken off the peer's channel: the first message fills it.
SharedSendNext ==
    \/ reg_calls = 0 /\ WCall("cm1", "insert", "peerA", "stub1")
    \/ reg_calls = 1 /\ w["cm1"].pc = "idle" /\ WCall("cm1", "remove", "peerA", "stub1")
    \/ WriterStep("cm1")
    \/ s_calls = 0 /\ SBegin("snd1", "send_to", <<"peerA">>, FALSE, TRUE)
    \/ s_calls = 0 /\ SBegin("snd1", "send_to_many", <<"peerA", "peerB">>, FALSE, TRUE)
    \/ rpc_calls = 0 /\ RpcBegin("snd2", "peerA", FALSE, TRUE, 1)
    \/ \E t \in SenderThreads : SenderStep(t)
    \/ TimePasses
    \/ PeerGone("stub1")

SpecSharedSend == RegInit /\ [][SharedSendNext]_vars

\* A thread that can run takes its next step, or time passes.
SharedProgress ==
    \/ \E t \in SenderThreads : SenderStep(t)
    \/ WriterStep("cm1")
    \/ TimePasses

\* The machine does not halt while a thread can run or a timer is pending: some
\* thread steps or time passes. Nothing obliges the peer's write task to drain its
\* channel or the peer to respond.
SpecSharedSendFair == SpecSharedSend /\ WF_vars(SharedProgress)

\* The clock when a send_rpc returned is no later than its deadline.
ReturnedByDeadline(t) == (s[t].op = "send_rpc" /\ s[t].pc = "done") => s[t].wake <= s[t].deadline

\* A send_to or send_to_many is never suspended, and a send_rpc is suspended only in
\* its bounded wait, up to its deadline.
C31_Safety ==
    \A t \in SenderThreads :
        /\ s[t].op \in {"send_to", "send_to_many"} => ~s[t].waited
        /\ s[t].pc = "rpc_wait" => clock <= s[t].deadline /\ s[t].wake = s[t].deadline
        /\ (s[t].op = "send_rpc" /\ s[t].pc = "done" /\ s[t].waited) =>
                s[t].wake <= s[t].deadline

\* C31 as stated: every send_to, send_to_many and send_rpc call returns, whatever the
\* other threads do and whatever the state of the channel, and a send_rpc call has
\* returned by its deadline.
C31_ReturnsByDeadline ==
    /\ [](\A t \in SenderThreads : ReturnedByDeadline(t))
    /\ (InCall # {}) ~> (InCall = {})

\* C31: every send_to, send_to_many and send_rpc call returns, whatever the other
\* threads do and although the full channel is never drained; send_to and
\* send_to_many are never suspended, and send_rpc is suspended only until its
\* deadline, so that a call that waited has returned by its deadline.
C31_NeverDeadlocks ==
    /\ []C31_Safety
    /\ (InCall # {}) ~> (InCall = {})

\* C31 (witness): with the peer removed again, the send_to or send_to_many of snd1
\* has found the channel full and returned PeerFullCondition, and the concurrent
\* send_rpc of snd2, whose request filled the channel, has waited and returned
\* TimedOut.
C31_Witness ==
    /\ generation = 2
    /\ s["snd1"].pc = "done"
    /\ s["snd1"].res = "PeerFullCondition"
    /\ s["snd2"].pc = "done"
    /\ s["snd2"].waited
    /\ s["snd2"].res = "TimedOut"

\* The send_rpc of snd2 has enqueued its request after its deadline and returned
\* TimedOut without waiting.
C31_WitnessLate ==
    /\ s["snd2"].pc = "done"
    /\ ~s["snd2"].waited
    /\ s["snd2"].enq # <<>>
    /\ s["snd2"].res = "TimedOut"
    /\ s["snd2"].wake > s["snd2"].deadline

\* A try_send of snd1 has found the channel closed.
C31_WitnessClosed ==
    /\ s["snd1"].pc = "done"
    /\ s["snd1"].res = "NotConnected"
    /\ s["snd1"].len0 = 0
    /\ s["snd1"].tried # <<>>
    /\ s["snd1"].tried[1] = "NotConnected"
    /\ s["snd1"].h0 >= 1
    /\ chan["stub1"].closed
    /\ "peerA" \in DOMAIN peers

\* ---------------------------------------------------------------- FIFOCache
\* What the model outside the FIFOCache is made of.
notfifo == <<regcore, g, cachevars, chan, s, s_calls, rpcvars, ev, inbound, yielded,
             relays, ev_poll, source, closer, ack>>

\* Incrementable::next for keys that count upwards.
KeyNext(k) == k + 1

\* The items with key k removed, and with k stored by insert call n.
ItemsRemove(items, k) == [j \in (DOMAIN items) \ {k} |-> items[j]]
ItemsInsert(items, k, n) == [j \in (DOMAIN items) \cup {k} |-> IF j = k THEN n ELSE items[j]]

\* The cached keys stored by an earlier insert call than key k was.
OlderThan(items, k) == {j \in DOMAIN items : items[j] < items[k]}

\* The cached key stored earliest.
Oldest(items) == CHOOSE k \in DOMAIN items : OlderThan(items, k) = {}

\* A thread calls insert(key, value).
FifoInsert(f, k) ==
    /\ fifo.t[f].pc = "idle"
    /\ fifo.n < MaxInserts
    /\ fifo' = [fifo EXCEPT !.t[f] = [pc |-> "is_empty", key |-> k], !.n = @ + 1]
    /\ UNCHANGED notfifo

\* insert: if self.items.is_empty()
FifoIsEmpty(f) ==
    /\ fifo.t[f].pc = "is_empty"
    /\ fifo' = [fifo EXCEPT
            !.t[f].pc = IF DOMAIN fifo.items = {} THEN "set_first" ELSE "evict"]
    /\ UNCHANGED notfifo

\* insert: cache_metadata.first_key = Some(key.clone()), under the write lock.
FifoSetFirst(f) ==
    /\ fifo.t[f].pc = "set_first"
    /\ fifo' = [fifo EXCEPT !.first_key = fifo.t[f].key, !.t[f].pc = "evict"]
    /\ UNCHANGED notfifo

\* evict: the test of the loop, under the read lock, which is dropped before pop.
FifoEvictTest(f) ==
    /\ fifo.t[f].pc = "evict"
    /\ fifo' = [fifo EXCEPT
            !.t[f].pc = IF fifo.total_size_in_bytes + SizeOfVal <= fifo.max_size_in_bytes
                        THEN "insert_impl" ELSE "pop"]
    /\ UNCHANGED notfifo

\* pop, under the write lock: first_key.unwrap() and items.remove(&first_key).unwrap()
\* panic for no first key and for a first key that is not cached; otherwise the
\* entry leaves, first_key becomes its successor and the size shrinks by its weight.
FifoPop(f) ==
    /\ fifo.t[f].pc = "pop"
    /\ LET k == fifo.first_key
       IN IF k = 0 \/ k \notin DOMAIN fifo.items
          THEN fifo' = [fifo EXCEPT !.t[f].pc = "panicked"]
          ELSE fifo' = [fifo EXCEPT
                    !.items = ItemsRemove(@, k),
                    !.first_key = KeyNext(k),
                    !.total_size_in_bytes = @ - SizeOfVal,
                    !.last = [key |-> k, first |-> k, next |-> KeyNext(k),
                              older |-> OlderThan(fifo.items, k) # {}],
                    !.t[f].pc = "evict"]
    /\ UNCHANGED notfifo

\* insert_impl, under the write lock, and the return of insert.
FifoInsertImpl(f) ==
    /\ fifo.t[f].pc = "insert_impl"
    /\ fifo' = [fifo EXCEPT
            !.last_key = fifo.t[f].key,
            !.total_size_in_bytes = @ + SizeOfVal,
            !.items = ItemsInsert(@, fifo.t[f].key, fifo.n),
            !.t[f].pc = "done"]
    /\ UNCHANGED notfifo

\* The caller goes on after insert returned.
FifoReturn(f) ==
    /\ fifo.t[f].pc = "done"
    /\ fifo' = [fifo EXCEPT !.t[f] = FifoIdle]
    /\ UNCHANGED notfifo

\* One thread inserting any keys, one insert after the other.
FifoSeqNext ==
    \/ \E k \in FifoKeys : FifoInsert("f1", k)
    \/ FifoIsEmpty("f1")
    \/ FifoSetFirst("f1")
    \/ FifoEvictTest("f1")
    \/ FifoPop("f1")
    \/ FifoInsertImpl("f1")
    \/ FifoReturn("f1")

SpecFifoSeq == RegInit /\ [][FifoSeqNext]_vars

\* Threads inserting concurrently.
FifoNext ==
    \/ \E f \in FifoThreads, k \in FifoKeys : FifoInsert(f, k)
    \/ \E f \in FifoThreads : FifoIsEmpty(f)
    \/ \E f \in FifoThreads : FifoSetFirst(f)
    \/ \E f \in FifoThreads : FifoEvictTest(f)
    \/ \E f \in FifoThreads : FifoPop(f)
    \/ \E f \in FifoThreads : FifoInsertImpl(f)
    \/ \E f \in FifoThreads : FifoReturn(f)

SpecFifo == RegInit /\ [][FifoNext]_vars

\* No insert is under way.
FifoQuiet == \A f \in FifoThreads : fifo.t[f].pc \in {"idle", "done", "panicked"}

\* C32: FIFOCache evicts in strict insertion order: between inserts first_key is the
\* oldest key still cached, and every eviction removed the entry at first_key, left
\* no older entry behind and advanced first_key to the successor of the removed key.
C32_EvictsInInsertionOrder ==
    /\ (FifoQuiet /\ DOMAIN fifo.items # {}) =>
            /\ fifo.first_key \in DOMAIN fifo.items
            /\ fifo.first_key = Oldest(fifo.items)
    /\ fifo.last.key # 0 =>
            /\ fifo.last.key = fifo.last.first
            /\ fifo.last.next = KeyNext(fifo.last.key)
            /\ ~fifo.last.older

\* C39: FIFOCache respects its capacity: when an insert has returned, total_size() is
\* at most max_size_in_bytes, for concurrent inserts of values no heavier than
\* max_size_in_bytes.
C39_CapacityRespected ==
    (SizeOfVal <= fifo.max_size_in_bytes /\ \E f \in FifoThreads : fifo.t[f].pc = "done") =>
        fifo.total_size_in_bytes <= fifo.max_size_in_bytes

\* -------------------------------------------------- send_rpc: entry before envelope
\* The entry of the call of thread t is in the matcher of its peer.
EntryPresent(t) ==
    /\ s[t].rid \in DOMAIN matcher[s[t].stub]
    /\ matcher[s[t].stub][s[t].rid].call = s[t].call

\* C33: in every send_rpc the correlation entry of the allocated request id has been
\* inserted into the peer's matcher before the request envelope is on the peer's
\* channel: at the step that enqueues the request the call's oneshot exists and its
\* entry is in the matcher, unless the matcher's owner has already completed or
\* removed it; so every request the peer has received, and may respond to, is one
\* whose entry had been inserted.
C33_EntryBeforeEnvelope ==
    /\ [][\A t \in SenderThreads :
            (s[t].op = "send_rpc" /\ Enqueues(t)) =>
                /\ slot[s[t].call].st # "none"
                /\ slot[s[t].call].st = "open" => EntryPresent(t)]_vars
    /\ [](\A req \in remote : slot[req.call].st # "none")

\* C33 (witness): a request has just been enqueued, its entry is in the matcher and
\* the peer has not seen it yet.
C33_Witness ==
    \E t \in SenderThreads :
        /\ s[t].op = "send_rpc"
        /\ s[t].pc = "rpc_sent"
        /\ s[t].enq # <<>>
        /\ EntryPresent(t)
        /\ slot[s[t].call].st = "open"
        /\ RpcMsg(s[t].rid, s[t].call) \in
                {chan[s[t].stub]["norm"][i] : i \in 1 .. Len(chan[s[t].stub]["norm"])}

\* ------------------------------------------------------ send_rpc: request ids
\* The steps of a send_rpc call of thread t, from its first statement to its result.
RpcCallStep(t) ==
    \/ UPLoad(t) \/ GGTest(t) \/ GGReadLock(t) \/ GGLoadActual(t) \/ GGClone(t)
    \/ GGReturn(t) \/ UPGot(t) \/ UPWLock(t) \/ UPStore(t) \/ UPFill(t)
    \/ RpcLock(t) \/ RpcLookup(t) \/ RpcInsert(t) \/ RpcTrySend(t)
    \/ RpcDeadline(t) \/ RpcWait(t)

\* Two threads calling send_rpc for the same peer through one NetworkSender, whose
\* cached map holds the peer's handle with its shared rpc_counter. The timeout is 0:
\* a call whose request was enqueued returns TimedOut at once.
RpcIdsNext ==
    \/ generation = 0 /\ WCall("cm1", "insert", "peerA", "stub1")
    \/ WriterStep("cm1")
    \/ \E t \in SenderThreads : RpcBegin(t, "peerA", FALSE, TRUE, 0)
    \/ \E t \in SenderThreads : RpcCallStep(t)
    \/ \E t \in SenderThreads : SReturn(t)
    \/ Drain("stub1", "norm")

SpecRpcIds == RegInit /\ [][RpcIdsNext]_vars

\* The call of thread t holds a request id it allocated.
HasId(t) ==
    s[t].op = "send_rpc" /\ s[t].pc \in {"rpc_insert", "rpc_try", "rpc_sent", "rpc_wait"}

\* The step is the one in which the call of thread t allocates its request id.
AllocatesId(t) == s[t].pc = "rpc_lookup" /\ s'[t].pc = "rpc_insert"

\* C34: request ids are per-peer monotonic and unique. The id a call allocates is the
\* value of the handle's counter, one greater than the id allocated before it on
\* that handle, and the counter moves on by one at that step and at no other; so the
\* ids held by concurrent calls on one handle differ, and every id allocated so far,
\* held by a call or left in the matcher, is below the counter.
C34_RequestIdsUnique ==
    /\ [][\A t \in SenderThreads :
            IF AllocatesId(t)
            THEN /\ s'[t].rid = rpc_counter[s'[t].stub]
                 /\ rpc_counter'[s'[t].stub] = s'[t].rid + 1
            ELSE (\A u \in SenderThreads : ~AllocatesId(u)) => rpc_counter' = rpc_counter]_vars
    /\ [](\A t \in SenderThreads, u \in SenderThreads :
            (HasId(t) /\ HasId(u) /\ t # u /\ s[t].stub = s[u].stub) => s[t].rid # s[u].rid)
    /\ [](\A t \in SenderThreads : HasId(t) => s[t].rid < rpc_counter[s[t].stub])
    /\ [](\A h \in Stubs : \A r \in DOMAIN matcher[h] : r < rpc_counter[h])

\* C34 (witness): two concurrent calls hold the ids 0 and 1 of the same handle.
C34_Witness ==
    /\ HasId("snd1") /\ HasId("snd2")
    /\ s["snd1"].stub = s["snd2"].stub
    /\ {s["snd1"].rid, s["snd2"].rid} = {0, 1}

\* ------------------------------------- get_generational: the pair it returns
\* The registry's history is that of its mutations: it starts with the empty map and
\* the map of each generation is the map of the one before with one insert or remove
\* applied.
HistoryOfMutations ==
    /\ hist[1] = EmptyMap
    /\ \A k \in 1 .. (Len(hist) - 1) :
            \E op \in {"insert", "remove"}, p \in Peers, h \in Stubs :
                hist[k + 1] = Expected(hist[k], op, p, h)

\* C35: the (map, generation) pair get_generational returns is consistent under any
\* interleaving with insert and remove: the generation is one the counter has held,
\* the map is the registry's map of that generation, the result of exactly that many
\* completed mutations.
C35_PairConsistent ==
    /\ HistoryOfMutations
    /\ \A t \in Callers : g[t].pc = "gg_some" =>
            /\ g[t].retgen \in 0 .. generation
            /\ g[t].retgen + 1 \in 1 .. Len(hist)
            /\ g[t].out = hist[g[t].retgen + 1]

\* C35's case: a call has returned the pair of a generation reached by two mutations
\* or more while a writer that took the write guard after it has changed the map and
\* not yet the counter: the pair is the registry's as of the returned generation.
C35_Witness ==
    \E t \in Callers, u \in Writers :
        /\ g[t].pc = "gg_some"
        /\ g[t].retgen >= 2
        /\ w[u].pc = "mapped"
        /\ generation = g[t].retgen
        /\ g[t].out # peer_connections

\* ----------------------------------------- the shared sender's cached generation
\* C36: for a NetworkSender shared by concurrent callers the cached generation never
\* decreases: no update_peers stores a snapshot older than the one the cache holds.
C36_CachedGenerationNeverDecreases ==
    [][peers_generation' >= peers_generation]_vars

\* ------------------------------------------- the event stream loses no message
\* Decodable RPC requests and direct-send messages of peerA arriving while the
\* connection manager connects peerA, read by a consumer that polls at any time.
LateSenderNext ==
    \/ generation = 0 /\ WCall("cm1", "insert", "peerA", "stub1")
    \/ WriterStep("cm1")
    \/ Put([kind |-> "rpc", ok |-> TRUE, sender |-> "peerA", rid |-> 7], MaxInbound)
    \/ Put([kind |-> "direct", ok |-> TRUE, sender |-> "peerA", rid |-> 0], MaxInbound)
    \/ CloseInbound
    \/ PollNext

SpecLateSender == RegInit /\ [][LateSenderNext]_vars

\* The connection manager's call runs to its end.
Connects == (generation = 0 /\ WCall("cm1", "insert", "peerA", "stub1")) \/ WriterStep("cm1")

\* The consumer keeps polling and the connection manager's insert completes.
SpecLateSenderFair == SpecLateSender /\ WF_vars(PollNext) /\ WF_vars(Connects)

\* The latest poll_next took the n-th message of the source, a direct-send message
\* or an RPC request with a decodable payload, while the stream was active.
TookDecodable(n) ==
    /\ ev_poll.hand.n = n
    /\ ev_poll.hand.kind \in {"rpc", "direct"}
    /\ ev_poll.hand.ok
    /\ ev_poll.took > 0

\* The n-th message of the source has been yielded as an event.
YieldedMsg(n) == \E i \in 1 .. Len(yielded) : yielded[i].of.n = n

\* C37: no decodable inbound message is silently lost by the event stream. Every
\* direct-send message or RPC request with a decodable payload that poll_next takes
\* from the source while the stream is active is yielded to the application as an
\* event, at once or, for a request whose sender was absent from the registry when
\* it was taken, once the sender's handle is there.
C37_NoDecodableLost ==
    \A n \in 1 .. MaxInbound : TookDecodable(n) ~> YieldedMsg(n)

\* ----------------------------------------- one relay task, one response at most
\* The RpcRequest events yielded so far.
YieldedRequests == {i \in 1 .. Len(yielded) : yielded[i].kind = "RpcRequest"}

\* The relay tasks that have enqueued a response with request id rid for handle h.
Responded(h, rid) == {r \in relays : r.stub = h /\ r.rid = rid /\ r.enq # <<>>}

\* C38: for each RpcRequest event yielded exactly one relay task was spawned, and a
\* task enqueues at most one response envelope, with the request id of its request;
\* so a peer is sent no more responses with one request id than requests with that
\* id were yielded, one at most when the peer's ids are distinct, and no response
\* is enqueued for a request that was never yielded: every task is that of a
\* yielded request, and every response on a channel is that of a task.
C38_OneRelayOneResponse ==
    /\ \A i \in YieldedRequests :
            Cardinality({r \in relays : r.of = yielded[i].of}) = 1
    /\ \A r \in relays :
            /\ Len(r.enq) <= 1
            /\ r.rid = r.of.rid
            /\ \E i \in YieldedRequests : yielded[i].of = r.of
            /\ \A k \in 1 .. Len(r.enq) : r.enq[k].msg.rid = r.of.rid
    /\ \A h \in Stubs, rid \in {7, 8} :
            Cardinality(Responded(h, rid))
                <= Cardinality({i \in YieldedRequests : yielded[i].of.rid = rid})
    /\ Cardinality(relays) = Cardinality(YieldedRequests)
    /\ ResponsesFromTasks

\* C38 (witness): two requests were taken from the source, the first while its
\* sender was absent from the registry and so never yielded; the second was yielded
\* and its one task has enqueued its response.
C38_Witness ==
    /\ inbound.taken = 2
    /\ Len(yielded) = 1
    /\ yielded[1].of.n = 2
    /\ \E r \in relays : r.out = "sent" /\ r.of.n = 2 /\ Len(r.enq) = 1

\* ----------------------------------------------------------------- AckState
\* What the model outside the AckState is made of.
notack == <<regcore, g, cachevars, chan, s, s_calls, rpcvars, ev, inbound, yielded,
            relays, ev_poll, source, closer, fifo>>

\* HashSet::remove: the set without the value, and whether the value was present.
SetRemove(set, x) == set \ {x}
SetHad(set, x) == x \in set

\* An aggregation that is reported while one validator has still to ack.
AckAggregatedEarly(validators) == Cardinality(validators) <= 1

\* AckState::add after a successful remove: if self.validators.is_empty() { Ok(Some(())) } else { Ok(None) }.
AckAggregated(validators) == validators = {}

\* AckState::new(validators): the iterator is collected into the HashSet.
AckNew(V) ==
    /\ ~ack.built
    /\ ack' = [ack EXCEPT !.built = TRUE, !.initial = V, !.validators = V]
    /\ UNCHANGED notack

\* AckState::add(peer, ack): Ok(Some(())), Ok(None) or the error "Unknown author".
AckAdd(peer) ==
    /\ ack.built
    /\ ack.calls < MaxAdds
    /\ LET had == SetHad(ack.validators, peer)
           rest == SetRemove(ack.validators, peer)
           res == IF had THEN (IF AckAggregated(rest) THEN "Some" ELSE "None") ELSE "Err"
       IN ack' = [ack EXCEPT
                    !.validators = rest,
                    !.calls = @ + 1,
                    !.somes = IF res = "Some" THEN @ + 1 ELSE @,
                    !.acked = IF res = "Err" THEN @ ELSE @ \cup {peer},
                    !.last = [peer |-> peer, res |-> res, before |-> ack.validators,
                              acked |-> ack.acked]]
    /\ UNCHANGED notack

\* One AckState, built from any set of validators, and the acks that reach it.
AckNext ==
    \/ \E V \in SUBSET Authors : AckNew(V)
    \/ \E peer \in Authors : AckAdd(peer)

SpecAck == RegInit /\ [][AckNext]_vars

\* C40: for an AckState built from a non-empty validator set, over any sequence of
\* add calls, Some(()) is returned by exactly one call, the one that makes every
\* validator of the initial set acked (none before all have acked, one once they
\* have); an earlier first-time ack returns None; an add from a peer outside the
\* initial set, or from a peer that already acked, returns the error and leaves the
\* remaining set as it was.
C40_AggregatedExactlyOnce ==
    (ack.built /\ ack.initial # {}) =>
        /\ ack.validators = ack.initial \ ack.acked
        /\ ack.acked \subseteq ack.initial
        /\ ack.somes = (IF ack.acked = ack.initial THEN 1 ELSE 0)
        /\ ack.calls > 0 =>
            /\ ack.last.res = "Some" <=>
                    /\ ack.last.peer \in ack.initial \ ack.last.acked
                    /\ ack.last.acked \cup {ack.last.peer} = ack.initial
            /\ ack.last.res = "None" <=>
                    /\ ack.last.peer \in ack.initial \ ack.last.acked
                    /\ ack.last.acked \cup {ack.last.peer} # ack.initial
            /\ ack.last.res = "Err" <=>
                    (ack.last.peer \notin ack.initial \/ ack.last.peer \in ack.last.acked)
            /\ ack.last.res = "Err" =>
                    ack.validators = ack.last.before /\ ack.acked = ack.last.acked
            /\ ack.last.res = "Some" => ack.somes = 1 /\ ack.validators = {}

\* C40 (witness): an AckState of three validators, one of which acked twice and was
\* refused the second time, has returned Some(()) to the last of the three.
C40_Witness ==
    /\ Cardinality(ack.initial) = 3
    /\ ack.calls = 4
    /\ ack.last.res = "Some"
    /\ ack.somes = 1

\* C40 (witness): after the aggregation an ack of a validator of the set is refused.
C40_WitnessAfter ==
    /\ Cardinality(ack.initial) = 2
    /\ ack.acked = ack.initial
    /\ ack.last.res = "Err"
    /\ ack.last.peer \in ack.initial

====
